---- MODULE Spec2Model ----
(***************************************************************************)
(* Model of the vulthor navigation/state engine: the App state machine     *)
(* (src/src/app.rs), the input dispatcher (src/src/input.rs), the email    *)
(* store (src/src/email.rs), the maildir scanner (src/src/maildir.rs) and  *)
(* the render/input loop (src/src/main.rs, src/src/ui.rs).                 *)
(*                                                                         *)
(* Conventions: Rust indices are kept 0-based in the state; TLA+ sequences *)
(* are 1-based, so element i of a Vec v is v[i + 1].  Option<T> is a       *)
(* sequence of length at most one: None == << >>, Some(x) == << x >>.      *)
(* input.rs names the message-list pane ActivePane::List, app.rs and ui.rs *)
(* name it ActivePane::Messages; it is one pane, written "Messages" here.  *)
(***************************************************************************)
EXTENDS Integers, Sequences, FiniteSets, TLC

None == << >>
Some(x) == << x >>
IsSome(o) == Len(o) = 1
Unwrap(o) == o[1]

Max(a, b) == IF a >= b THEN a ELSE b

(***************************************************************************)
(* Bounds of the model.                                                    *)
(***************************************************************************)
\* scroll_offset is an unbounded usize in the code; the model stops scrolling down here
MaxScroll == 1
\* number of directory entries an on-disk scan may yield before an I/O error (inputs 0..MaxIoBudget-1)
MaxIoBudget == 1
\* child indices 0..MaxIndex appear in the index paths given to the store operations
MaxIndex == 3
\* longest index path given to the store operations, and longest current_folder they build
MaxPathLen == 3
\* the list of emails of a folder is an unbounded Vec in the code (a full load appends to what
\* a capped or a failed load left); the runs of the load stop growing it here
MaxEmails == 4
\* largest limit given to a capped load applied on its own
MaxLimit == 2
\* most children the root of a mail directory is given in the runs over mail directories
MaxChildren == 2
\* the attachment list of a message is an unbounded Vec in the code (each full parse appends
\* to it); the runs of the message operations stop growing it here
MaxAttachments == 2

(***************************************************************************)
(* Names.  A name is a TLA+ string; NameBytes gives its bytes so that the  *)
(* comparisons of the code (str::cmp, eq_ignore_ascii_case, starts_with)   *)
(* are computed on bytes, as Rust computes them.                           *)
(***************************************************************************)
NameBytes(name) ==
    CASE name = "INBOX"   -> <<73, 78, 66, 79, 88>>
      [] name = "Inbox"   -> <<73, 110, 98, 111, 120>>
      [] name = "inbox"   -> <<105, 110, 98, 111, 120>>
      [] name = "Sent"    -> <<83, 101, 110, 116>>
      [] name = "Old"     -> <<79, 108, 100>>
      [] name = "Archive" -> <<65, 114, 99, 104, 105, 118, 101>>
      [] name = "Mail"    -> <<77, 97, 105, 108>>
      [] name = ".cache"  -> <<46, 99, 97, 99, 104, 101>>
      [] name = "cur"     -> <<99, 117, 114>>
      [] name = "new"     -> <<110, 101, 119>>
      [] name = "tmp"     -> <<116, 109, 112>>

\* <[u8] as Ord>::cmp: lexicographic on bytes, a proper prefix is smaller
RECURSIVE BytesLess(_, _)
BytesLess(a, b) ==
    IF b = << >> THEN FALSE
    ELSE IF a = << >> THEN TRUE
    ELSE IF Head(a) # Head(b) THEN Head(a) < Head(b)
    ELSE BytesLess(Tail(a), Tail(b))

\* u8::to_ascii_lowercase
ToAsciiLower(c) == IF c >= 65 /\ c <= 90 THEN c + 32 ELSE c

\* str::eq_ignore_ascii_case
EqIgnoreAsciiCase(a, b) ==
    /\ Len(a) = Len(b)
    /\ \A i \in 1..Len(a) : ToAsciiLower(a[i]) = ToAsciiLower(b[i])

\* str::starts_with('.')
StartsWithDot(name) == LET b == NameBytes(name) IN Len(b) > 0 /\ b[1] = 46

(***************************************************************************)
(* The file system.  A directory is [name, files, subdirs]; a maildir      *)
(* folder has the subdirectories cur, new and tmp.  A file is a number;    *)
(* FileInfo says what kind of directory entry it is, whether the parser    *)
(* accepts it and how many attachments the parser finds in it.             *)
(***************************************************************************)
Dir(name, files, subdirs) == [name |-> name, files |-> files, subdirs |-> subdirs]
MailDirOf(name, cur, new, subdirs) ==
    Dir(name, << >>,
        <<Dir("cur", cur, << >>), Dir("new", new, << >>), Dir("tmp", << >>, << >>)>> \o subdirs)

FileInfo(f) ==
    CASE f = 1 -> [kind |-> "mail", parses |-> TRUE,  natt |-> 1]
      [] f = 2 -> [kind |-> "mail", parses |-> TRUE,  natt |-> 0]
      [] f = 3 -> [kind |-> "mail", parses |-> FALSE, natt |-> 0]
      [] f = 4 -> [kind |-> "mail", parses |-> TRUE,  natt |-> 2]
      [] f = 5 -> [kind |-> "lock", parses |-> FALSE, natt |-> 0]
      [] f = 6 -> [kind |-> "hidden", parses |-> FALSE, natt |-> 0]

\* INBOX stored after Sent (read_dir order is arbitrary), Sent an empty maildir with one
\* nested folder, one hidden directory; INBOX holds a message the parser rejects
DiskA ==
    Dir("Mail", << >>,
        << MailDirOf("Sent", <<5>>, << >>, << MailDirOf("Old", <<4>>, << >>, << >>) >>),
           Dir(".cache", <<6>>, << >>),
           MailDirOf("INBOX", <<1, 6, 2>>, <<3>>, << >>) >>)

Disks == {DiskA}

(***************************************************************************)
(* Email (src/src/email.rs).  attachments is the length of the attachment  *)
(* list; parse_error marks the placeholder subject "Parse Error: ...".     *)
(***************************************************************************)
EmailNew(file) ==
    [file |-> file, is_unread |-> FALSE, load_state |-> "HeadersOnly",
     attachments |-> 0, parse_error |-> FALSE]

\* Result<(), _> of a method on &mut Email: the outcome and the email as the call leaves it
parse_from_file(e) ==
    IF FileInfo(e.file).parses
    THEN [ok |-> TRUE,
          val |-> [e EXCEPT !.load_state = "FullyLoaded",
                            !.attachments = @ + FileInfo(e.file).natt]]
    ELSE [ok |-> FALSE, val |-> e]

parse_headers_only(e) ==
    IF FileInfo(e.file).parses
    THEN [ok |-> TRUE, val |-> [e EXCEPT !.load_state = "HeadersOnly"]]
    ELSE [ok |-> FALSE, val |-> e]

ensure_fully_loaded(e) ==
    IF e.load_state = "HeadersOnly" THEN parse_from_file(e) ELSE [ok |-> TRUE, val |-> e]

\* has_attachments that never says no
has_attachments_always(e) == TRUE

has_attachments(e) == e.attachments # 0

(***************************************************************************)
(* Folder (src/src/email.rs).  path is the folder's place on disk: the     *)
(* 1-based positions of the directories leading to it from the root.      *)
(***************************************************************************)
FolderNew(name, path) ==
    [name |-> name, path |-> path, emails |-> << >>, subfolders |-> << >>,
     unread_count |-> 0, total_count |-> 0, is_loaded |-> FALSE]

\* add_email that counts every email as unread
add_email_all_unread(folder, email) ==
    [folder EXCEPT !.unread_count = @ + 1,
                   !.total_count = @ + 1,
                   !.emails = Append(@, email)]

add_email(folder, email) ==
    [folder EXCEPT !.unread_count = IF email.is_unread THEN @ + 1 ELSE @,
                   !.total_count = @ + 1,
                   !.emails = Append(@, email)]

add_subfolder(folder, sub) == [folder EXCEPT !.subfolders = Append(@, sub)]

\* the comparator of get_sorted_subfolders: Less exactly when a must come before b
SortsBefore(a, b) ==
    IF a.name = "INBOX" THEN TRUE
    ELSE IF b.name = "INBOX" THEN FALSE
    ELSE BytesLess(NameBytes(a.name), NameBytes(b.name))

\* stable insertion of the storage position i into a list of positions sorted by the comparator
RECURSIVE InsertSorted(_, _, _)
InsertSorted(subs, sorted, i) ==
    IF sorted = << >> THEN <<i>>
    ELSE IF SortsBefore(subs[i], subs[Head(sorted)]) /\ ~(subs[i].name = "INBOX" /\ subs[Head(sorted)].name = "INBOX")
         THEN <<i>> \o sorted
         ELSE <<Head(sorted)>> \o InsertSorted(subs, Tail(sorted), i)

RECURSIVE SortedPositions(_, _)
SortedPositions(subs, n) ==
    IF n = 0 THEN << >> ELSE InsertSorted(subs, SortedPositions(subs, n - 1), n)

\* get_sorted_subfolders, as the 1-based storage positions of the children in display order
get_sorted_subfolders(folder) == SortedPositions(folder.subfolders, Len(folder.subfolders))

get_display_name(folder) ==
    [name |-> folder.name, count |-> folder.unread_count]

(***************************************************************************)
(* MaildirScanner (src/src/maildir.rs).                                    *)
(***************************************************************************)
RECURSIVE DiskAt(_, _)
DiskAt(dir, path) ==
    IF path = << >> THEN dir ELSE DiskAt(dir.subdirs[Head(path)], Tail(path))

\* path.join(name).exists(): the position of the subdirectory called name, 0 if there is none
SubdirNamed(dir, name) ==
    IF \E i \in 1..Len(dir.subdirs) : dir.subdirs[i].name = name
    THEN CHOOSE i \in 1..Len(dir.subdirs) : dir.subdirs[i].name = name
    ELSE 0

is_email_file(f) == FileInfo(f).kind = "mail"

RECURSIVE scan_subdirs(_, _, _)
scan_subdirs(dir, path, i) ==
    IF i > Len(dir.subdirs) THEN << >>
    ELSE LET d == dir.subdirs[i]
             skip == d.name \in {"cur", "new", "tmp"} \/ StartsWithDot(d.name)
         IN  IF skip THEN scan_subdirs(dir, path, i + 1)
             ELSE << [FolderNew(d.name, path \o <<i>>) EXCEPT
                          !.subfolders = scan_subdirs(d, path \o <<i>>, 1)] >>
                  \o scan_subdirs(dir, path, i + 1)

scan_folder_structure_only(folder, dir) ==
    [folder EXCEPT !.subfolders = @ \o scan_subdirs(dir, folder.path, 1)]

\* An I/O budget is the number of directory entries a scan yields before the directory
\* iterator reports an error: Some(n), or None for a scan that never fails.
NoIoError == None
IoBudgets == {NoIoError} \cup {Some(n) : n \in 0..(MaxIoBudget - 1)}
SpendOne(budget) == IF budget = NoIoError THEN budget ELSE Some(Unwrap(budget) - 1)

\* scan_emails_in_folder: the files of one directory (cur or new), in iteration order
RECURSIVE scan_emails_in_folder(_, _, _, _)
scan_emails_in_folder(folder, files, dir_name, budget) ==
    IF files = << >> THEN [ok |-> TRUE, val |-> folder, budget |-> budget]
    ELSE IF budget = Some(0) THEN [ok |-> FALSE, val |-> folder, budget |-> budget]
    ELSE LET f == Head(files)
             left == SpendOne(budget)
             email == [EmailNew(f) EXCEPT !.is_unread = (dir_name = "new")]
             parsed == parse_from_file(email)
             added == IF ~is_email_file(f) THEN folder
                      ELSE IF parsed.ok THEN add_email(folder, parsed.val)
                      ELSE add_email(folder, [email EXCEPT !.parse_error = TRUE])
         IN  scan_emails_in_folder(added, Tail(files), dir_name, left)

FilesOf(dir, name) ==
    IF SubdirNamed(dir, name) = 0 THEN << >> ELSE dir.subdirs[SubdirNamed(dir, name)].files

is_maildir(dir) ==
    SubdirNamed(dir, "cur") # 0 /\ SubdirNamed(dir, "new") # 0 /\ SubdirNamed(dir, "tmp") # 0

\* load_folder_emails that scans again a folder that is already loaded
load_folder_emails_reloading(folder, root_dir, budget) ==
    LET AfterNew(n) == IF ~n.ok THEN [ok |-> FALSE, val |-> n.val]
                       ELSE [ok |-> TRUE, val |-> [n.val EXCEPT !.is_loaded = TRUE]]
        AfterCur(dir, c) ==
            IF ~c.ok THEN [ok |-> FALSE, val |-> c.val]
            ELSE AfterNew(scan_emails_in_folder(c.val, FilesOf(dir, "new"), "new", c.budget))
        InDir(dir) ==
            IF ~is_maildir(dir) THEN [ok |-> TRUE, val |-> [folder EXCEPT !.is_loaded = TRUE]]
            ELSE AfterCur(dir, scan_emails_in_folder(folder, FilesOf(dir, "cur"), "cur", budget))
    IN  InDir(DiskAt(root_dir, folder.path))

\* load_folder_emails: the full load
load_folder_emails(folder, root_dir, budget) ==
    LET AfterNew(n) == IF ~n.ok THEN [ok |-> FALSE, val |-> n.val]
                       ELSE [ok |-> TRUE, val |-> [n.val EXCEPT !.is_loaded = TRUE]]
        AfterCur(dir, c) ==
            IF ~c.ok THEN [ok |-> FALSE, val |-> c.val]
            ELSE AfterNew(scan_emails_in_folder(c.val, FilesOf(dir, "new"), "new", c.budget))
        InDir(dir) ==
            IF ~is_maildir(dir) THEN [ok |-> TRUE, val |-> [folder EXCEPT !.is_loaded = TRUE]]
            ELSE AfterCur(dir, scan_emails_in_folder(folder, FilesOf(dir, "cur"), "cur", budget))
    IN  IF folder.is_loaded THEN [ok |-> TRUE, val |-> folder]
        ELSE InDir(DiskAt(root_dir, folder.path))

\* the headers-only, capped scan of one directory of the capped load
RECURSIVE scan_emails_with_limit(_, _, _, _, _)
scan_emails_with_limit(folder, files, dir_name, limit, budget) ==
    IF files = << >> \/ Len(folder.emails) >= limit
    THEN [ok |-> TRUE, val |-> folder, budget |-> budget]
    ELSE IF budget = Some(0) THEN [ok |-> FALSE, val |-> folder, budget |-> budget]
    ELSE LET f == Head(files)
             left == SpendOne(budget)
             email == [EmailNew(f) EXCEPT !.is_unread = (dir_name = "new")]
             parsed == parse_headers_only(email)
             added == IF ~is_email_file(f) THEN folder
                      ELSE IF parsed.ok THEN add_email(folder, parsed.val)
                      ELSE add_email(folder, [email EXCEPT !.parse_error = TRUE])
         IN  scan_emails_with_limit(added, Tail(files), dir_name, limit, left)

\* load_folder_emails_with_limit(folder, Some(limit)): the capped load
load_folder_emails_with_limit(folder, limit, root_dir, budget) ==
    LET cleared == [folder EXCEPT !.emails = << >>, !.unread_count = 0, !.total_count = 0]
        AfterNew(n) == [ok |-> n.ok, val |-> n.val]
        AfterCur(dir, c) ==
            IF ~c.ok THEN [ok |-> FALSE, val |-> c.val]
            ELSE AfterNew(scan_emails_with_limit(c.val, FilesOf(dir, "new"), "new", limit, c.budget))
        InDir(dir) ==
            IF ~is_maildir(dir) THEN [ok |-> TRUE, val |-> folder]
            ELSE AfterCur(dir, scan_emails_with_limit(cleared, FilesOf(dir, "cur"), "cur", limit, budget))
    IN  IF folder.is_loaded THEN [ok |-> TRUE, val |-> folder]
        ELSE InDir(DiskAt(root_dir, folder.path))

\* position (1-based) of the first child named exactly "INBOX", 0 if there is none
InboxPosition(subs) ==
    IF \E i \in 1..Len(subs) : subs[i].name = "INBOX"
    THEN CHOOSE i \in 1..Len(subs) : subs[i].name = "INBOX" /\ \A j \in 1..(i - 1) : subs[j].name # "INBOX"
    ELSE 0

\* scan(): the folder structure, then the immediate load of INBOX; ok is FALSE when that load fails
scan(root_dir, budget) ==
    LET root == scan_folder_structure_only(FolderNew("Mail", << >>), root_dir)
        p == InboxPosition(root.subfolders)
    IN  IF p = 0 THEN [ok |-> TRUE, val |-> root]
        ELSE LET r == load_folder_emails(root.subfolders[p], root_dir, budget)
             IN  [ok |-> r.ok, val |-> [root EXCEPT !.subfolders[p] = r.val]]

(***************************************************************************)
(* EmailStore (src/src/email.rs).  A store is                              *)
(* [root_folder, current_folder, selected_email].                          *)
(***************************************************************************)
EmailStoreNew ==
    [root_folder |-> FolderNew("Mail", << >>), current_folder |-> << >>, selected_email |-> None]

\* the walk of get_current_folder: an out-of-range index is skipped, the walk goes on
RECURSIVE FolderClamped(_, _)
FolderClamped(folder, path) ==
    IF path = << >> THEN folder
    ELSE IF Head(path) < Len(folder.subfolders)
         THEN FolderClamped(folder.subfolders[Head(path) + 1], Tail(path))
         ELSE FolderClamped(folder, Tail(path))

get_current_folder(store) == FolderClamped(store.root_folder, store.current_folder)

\* the tree after a write through the reference that get_current_folder_mut returns
RECURSIVE SetFolderClamped(_, _, _)
SetFolderClamped(folder, path, new) ==
    IF path = << >> THEN new
    ELSE IF Head(path) < Len(folder.subfolders)
         THEN [folder EXCEPT !.subfolders[Head(path) + 1] = SetFolderClamped(@, Tail(path), new)]
         ELSE SetFolderClamped(folder, Tail(path), new)

set_current_folder(store, new) ==
    [store EXCEPT !.root_folder = SetFolderClamped(@, store.current_folder, new)]

\* the strict walk: None as soon as an index is out of range
RECURSIVE FolderAtPath(_, _)
FolderAtPath(folder, path) ==
    IF path = << >> THEN Some(folder)
    ELSE IF Head(path) < Len(folder.subfolders)
         THEN FolderAtPath(folder.subfolders[Head(path) + 1], Tail(path))
         ELSE None

get_folder_at_path(store, path) == FolderAtPath(store.root_folder, path)

\* enter_folder_by_path that replaces the path instead of extending it
enter_folder_by_path_replacing(store, path) ==
    [store EXCEPT !.current_folder = path, !.selected_email = None]

enter_folder_by_path(store, path) ==
    [store EXCEPT !.current_folder = @ \o path, !.selected_email = None]

\* exit_folder without the selection reset
exit_folder_keep_selection(store) ==
    IF store.current_folder # << >>
    THEN [store EXCEPT !.current_folder = SubSeq(@, 1, Len(@) - 1)]
    ELSE store

exit_folder(store) ==
    IF store.current_folder # << >>
    THEN [store EXCEPT !.current_folder = SubSeq(@, 1, Len(@) - 1), !.selected_email = None]
    ELSE store

\* select_email without the bounds check
select_email_unchecked(store, email_index) ==
    [store EXCEPT !.selected_email = Some(email_index)]

select_email(store, email_index) ==
    IF email_index < Len(get_current_folder(store).emails)
    THEN [store EXCEPT !.selected_email = Some(email_index)]
    ELSE store

\* (visible_rows + 5).max(10)
LoadCount(visible_rows) == Max(visible_rows + 5, 10)

ensure_folder_at_path_loaded(store, path, visible_rows, root_dir, budget) ==
    LET Loaded(r) ==
            [ok |-> r.ok, val |-> [store EXCEPT !.root_folder = SetFolderClamped(@, path, r.val)]]
        Found(folder) ==
            IF ~folder.is_loaded /\ folder.emails = << >>
            THEN Loaded(load_folder_emails_with_limit(folder, LoadCount(visible_rows), root_dir, budget))
            ELSE [ok |-> TRUE, val |-> store]
        Looked(f) == IF ~IsSome(f) THEN [ok |-> FALSE, val |-> store] ELSE Found(Unwrap(f))
    IN  Looked(FolderAtPath(store.root_folder, path))

ensure_current_folder_loaded_with_limit(store, limit, root_dir, budget) ==
    LET Loaded(r) == [ok |-> r.ok, val |-> set_current_folder(store, r.val)]
        Current(folder) ==
            IF ~folder.is_loaded /\ folder.emails = << >>
            THEN Loaded(load_folder_emails_with_limit(folder, limit, root_dir, budget))
            ELSE [ok |-> TRUE, val |-> store]
    IN  Current(get_current_folder(store))

\* the margin of load_more_messages_if_needed
LoadMoreMargin == 5

\* the load-more mutant that ignores the margin: it loads only at the last message
load_more_messages_at_end(store, index, root_dir, budget) ==
    LET Loaded(r) == [ok |-> r.ok, val |-> set_current_folder(store, r.val)]
        Current(folder) ==
            IF ~folder.is_loaded /\ index + 1 >= Len(folder.emails)
            THEN Loaded(load_folder_emails(folder, root_dir, budget))
            ELSE [ok |-> TRUE, val |-> store]
    IN  Current(get_current_folder(store))

load_more_messages_if_needed(store, index, root_dir, budget) ==
    LET Loaded(r) == [ok |-> r.ok, val |-> set_current_folder(store, r.val)]
        Current(folder) ==
            IF ~folder.is_loaded /\ index + LoadMoreMargin >= Len(folder.emails)
            THEN Loaded(load_folder_emails(folder, root_dir, budget))
            ELSE [ok |-> TRUE, val |-> store]
    IN  Current(get_current_folder(store))

\* the read that hands out the selected email as it is stored, without loading it
get_selected_email_as_stored(store) ==
    LET Current(current) ==
            IF IsSome(store.selected_email) /\ Unwrap(store.selected_email) < Len(current.emails)
            THEN [val |-> store, res |-> Some(current.emails[Unwrap(store.selected_email) + 1])]
            ELSE [val |-> store, res |-> None]
    IN  Current(get_current_folder(store))

\* get_selected_email(&mut self): val is the store as the call leaves it, res the Option<&Email>
get_selected_email(store) ==
    LET Loaded(current, index, r) ==
            IF ~r.ok THEN [val |-> store, res |-> None]
            ELSE [val |-> set_current_folder(store, [current EXCEPT !.emails[index + 1] = r.val]),
                  res |-> Some(r.val)]
        Current(current, index) ==
            IF index >= Len(current.emails) THEN [val |-> store, res |-> None]
            ELSE Loaded(current, index, ensure_fully_loaded(current.emails[index + 1]))
    IN  IF ~IsSome(store.selected_email) THEN [val |-> store, res |-> None]
        ELSE Current(get_current_folder(store), Unwrap(store.selected_email))

\* get_selected_email_headers(&self)
get_selected_email_headers(store) ==
    LET Current(current) ==
            IF IsSome(store.selected_email) /\ Unwrap(store.selected_email) < Len(current.emails)
            THEN Some(current.emails[Unwrap(store.selected_email) + 1])
            ELSE None
    IN  Current(get_current_folder(store))

\* get_selected_email_markdown(&mut self): the selected email is fully loaded when that succeeds
get_selected_email_markdown(store) ==
    LET Loaded(current, index, r) ==
            IF ~r.ok THEN [val |-> store, res |-> None]
            ELSE [val |-> set_current_folder(store, [current EXCEPT !.emails[index + 1] = r.val]),
                  res |-> Some(r.val)]
        Current(current) ==
            IF IsSome(store.selected_email) /\ Unwrap(store.selected_email) < Len(current.emails)
            THEN Loaded(current, Unwrap(store.selected_email),
                        ensure_fully_loaded(current.emails[Unwrap(store.selected_email) + 1]))
            ELSE [val |-> store, res |-> None]
    IN  Current(get_current_folder(store))

(***************************************************************************)
(* The flattened folder list of the folder pane (src/src/input.rs).  A     *)
(* folder reference is the folder's identity, here its storage path (the   *)
(* 0-based child positions from the root).                                 *)
(***************************************************************************)
RECURSIVE DescendantCount(_)
RECURSIVE ChildrenCount(_, _)
ChildrenCount(subs, i) ==
    IF i > Len(subs) THEN 0 ELSE 1 + DescendantCount(subs[i]) + ChildrenCount(subs, i + 1)
DescendantCount(folder) == ChildrenCount(folder.subfolders, 1)

count_visible_folders_recursive(folder) == DescendantCount(folder)
count_visible_folders(folder) == ChildrenCount(folder.subfolders, 1)

\* build_flat_folder_list that walks the children in storage order
RECURSIVE build_flat_folder_list_unsorted(_, _, _)
RECURSIVE FlatOfStored(_, _, _, _)
FlatOfStored(folder, path, depth, i) ==
    IF i > Len(folder.subfolders) THEN << >>
    ELSE build_flat_folder_list_unsorted(folder.subfolders[i], path \o <<i - 1>>, depth + 1)
         \o FlatOfStored(folder, path, depth, i + 1)
build_flat_folder_list_unsorted(folder, path, depth) ==
    (IF depth > 0 THEN << path >> ELSE << >>) \o FlatOfStored(folder, path, depth, 1)

RECURSIVE build_flat_folder_list(_, _, _)
RECURSIVE FlatOfSorted(_, _, _, _)
FlatOfSorted(folder, path, depth, sorted) ==
    IF sorted = << >> THEN << >>
    ELSE build_flat_folder_list(folder.subfolders[Head(sorted)], path \o <<Head(sorted) - 1>>, depth + 1)
         \o FlatOfSorted(folder, path, depth, Tail(sorted))
build_flat_folder_list(folder, path, depth) ==
    (IF depth > 0 THEN << path >> ELSE << >>)
    \o FlatOfSorted(folder, path, depth, get_sorted_subfolders(folder))

\* find_folder_path: depth-first search in storage order for the folder that is the target
RECURSIVE find_folder_path(_, _, _)
RECURSIVE FindInChildren(_, _, _, _)
FindInChildren(current, here, target, i) ==
    IF i >= Len(current.subfolders) THEN None
    ELSE LET r == find_folder_path(current.subfolders[i + 1], here \o <<i>>, target)
         IN  IF IsSome(r) THEN Some(<<i>> \o Unwrap(r))
             ELSE FindInChildren(current, here, target, i + 1)
find_folder_path(current, here, target) ==
    IF here = target THEN Some(<< >>) ELSE FindInChildren(current, here, target, 0)

get_folder_path_from_display_index(folder, display_index) ==
    LET Listed(flat_folders) ==
            IF display_index < Len(flat_folders)
            THEN find_folder_path(folder, << >>, flat_folders[display_index + 1])
            ELSE None
    IN  Listed(build_flat_folder_list(folder, << >>, 0))

(***************************************************************************)
(* The list of the folder pane (src/src/ui.rs): one item per non-root      *)
(* folder, its indentation and its display name.                           *)
(***************************************************************************)
RECURSIVE build_folder_list_static(_, _)
RECURSIVE ItemsOfSorted(_, _, _)
ItemsOfSorted(folder, depth, sorted) ==
    IF sorted = << >> THEN << >>
    ELSE build_folder_list_static(folder.subfolders[Head(sorted)], depth + 1)
         \o ItemsOfSorted(folder, depth, Tail(sorted))
build_folder_list_static(folder, depth) ==
    (IF depth > 0 THEN << [indent |-> depth - 1, display_name |-> get_display_name(folder)] >>
     ELSE << >>)
    \o ItemsOfSorted(folder, depth, get_sorted_subfolders(folder))

(***************************************************************************)
(* View (src/src/app.rs).  Option<View> is None or Some(view).             *)
(***************************************************************************)
Views == {"FolderMessages", "MessagesContent", "Content", "Messages", "MessagesAttachments"}
Panes == {"Folders", "Messages", "Content", "Attachments"}
AppStates == {"FolderView", "EmailList", "EmailContent", "AttachmentView", "Help", "Quit"}

get_available_panes(view, content_hidden) ==
    IF content_hidden
    THEN CASE view = "FolderMessages"      -> <<"Folders", "Messages">>
           [] view = "Messages"            -> <<"Messages">>
           [] view = "MessagesAttachments" -> <<"Messages", "Attachments">>
           [] OTHER                        -> <<"Messages">>
    ELSE CASE view = "FolderMessages"      -> <<"Folders", "Messages">>
           [] view = "MessagesContent"     -> <<"Messages", "Content">>
           [] view = "Content"             -> <<"Content">>
           [] OTHER                        -> <<"Messages">>

get_default_active_pane(view, content_hidden) ==
    IF content_hidden
    THEN CASE view = "FolderMessages"      -> "Folders"
           [] view = "Messages"            -> "Messages"
           [] view = "MessagesAttachments" -> "Attachments"
           [] OTHER                        -> "Messages"
    ELSE CASE view = "FolderMessages"      -> "Folders"
           [] view = "MessagesContent"     -> "Messages"
           [] view = "Content"             -> "Content"
           [] OTHER                        -> "Messages"

\* View::next_view with wraparound from the last view of a mode
View_next_view_wrap(view, content_hidden) ==
    IF content_hidden
    THEN CASE view = "FolderMessages"      -> Some("Messages")
           [] view = "Messages"            -> Some("MessagesAttachments")
           [] view = "MessagesAttachments" -> Some("FolderMessages")
           [] OTHER                        -> None
    ELSE CASE view = "FolderMessages"      -> Some("MessagesContent")
           [] view = "MessagesContent"     -> Some("Content")
           [] view = "Content"             -> Some("FolderMessages")
           [] OTHER                        -> None

View_next_view(view, content_hidden) ==
    IF content_hidden
    THEN CASE view = "FolderMessages"      -> Some("Messages")
           [] view = "Messages"            -> Some("MessagesAttachments")
           [] view = "MessagesAttachments" -> None
           [] OTHER                        -> None
    ELSE CASE view = "FolderMessages"      -> Some("MessagesContent")
           [] view = "MessagesContent"     -> Some("Content")
           [] view = "Content"             -> None
           [] OTHER                        -> None

\* View::prev_view with wraparound from the first view
View_prev_view_wrap(view, content_hidden) ==
    IF content_hidden
    THEN CASE view = "MessagesAttachments" -> Some("Messages")
           [] view = "Messages"            -> Some("FolderMessages")
           [] view = "FolderMessages"      -> Some("MessagesAttachments")
           [] OTHER                        -> None
    ELSE CASE view = "Content"             -> Some("MessagesContent")
           [] view = "MessagesContent"     -> Some("FolderMessages")
           [] view = "FolderMessages"      -> Some("Content")
           [] OTHER                        -> None

View_prev_view(view, content_hidden) ==
    IF content_hidden
    THEN CASE view = "MessagesAttachments" -> Some("Messages")
           [] view = "Messages"            -> Some("FolderMessages")
           [] view = "FolderMessages"      -> None
           [] OTHER                        -> None
    ELSE CASE view = "Content"             -> Some("MessagesContent")
           [] view = "MessagesContent"     -> Some("FolderMessages")
           [] view = "FolderMessages"      -> None
           [] OTHER                        -> None

Contains(seq, x) == \E i \in 1..Len(seq) : seq[i] = x

\* iter().position(..).unwrap_or(0), 0-based
PositionOr0(seq, x) ==
    IF Contains(seq, x) THEN (CHOOSE i \in 1..Len(seq) : seq[i] = x /\ \A j \in 1..(i - 1) : seq[j] # x) - 1
    ELSE 0

(***************************************************************************)
(* App (src/src/app.rs).                                                   *)
(***************************************************************************)
SelectionStateDefault ==
    [folder_index |-> 0, email_index |-> 0, scroll_offset |-> 0, attachment_index |-> 0,
     remembered_email_index |-> None]

\* set_state that focuses the content pane without asking whether the view has one
set_state_unchecked(a, new_state) ==
    LET available_panes == get_available_panes(a.current_view, a.content_pane_hidden)
        b == CASE new_state = "Quit" -> [a EXCEPT !.should_quit = TRUE]
               [] new_state = "EmailList" ->
                    IF Contains(available_panes, "Messages")
                    THEN [a EXCEPT !.active_pane = "Messages"] ELSE a
               [] new_state = "EmailContent" -> [a EXCEPT !.active_pane = "Content"]
               [] OTHER -> a
    IN  [b EXCEPT !.state = new_state]

set_state(a, new_state) ==
    LET available_panes == get_available_panes(a.current_view, a.content_pane_hidden)
        b == CASE new_state = "Quit" -> [a EXCEPT !.should_quit = TRUE]
               [] new_state = "EmailList" ->
                    IF Contains(available_panes, "Messages")
                    THEN [a EXCEPT !.active_pane = "Messages"] ELSE a
               [] new_state = "EmailContent" ->
                    IF Contains(available_panes, "Content")
                    THEN [a EXCEPT !.active_pane = "Content"] ELSE a
               [] OTHER -> a
    IN  [b EXCEPT !.state = new_state]

set_status(a, message) == [a EXCEPT !.status_message = Some(message)]
clear_status(a) == [a EXCEPT !.status_message = None]

\* the restore that selects without entering EmailContent
RestoreSelection_silent(a) ==
    LET Picked(b) == [b EXCEPT !.email_store = get_selected_email(b.email_store).val]
    IN  Picked(IF IsSome(a.selection.remembered_email_index)
               THEN [a EXCEPT !.selection.email_index = Unwrap(a.selection.remembered_email_index),
                              !.email_store = select_email(@, Unwrap(a.selection.remembered_email_index))]
               ELSE IF get_current_folder(a.email_store).emails # << >>
                    THEN [a EXCEPT !.selection.email_index = 0,
                                   !.email_store = select_email(@, 0)]
                    ELSE a)

\* the restore of switch_pane and next_view: the remembered index, else the first email;
\* then EmailContent when get_selected_email yields an email
RestoreSelection(a) ==
    LET Got(b, g) ==
            IF IsSome(g.res) THEN set_state([b EXCEPT !.email_store = g.val], "EmailContent")
            ELSE [b EXCEPT !.email_store = g.val]
        Picked(b) == Got(b, get_selected_email(b.email_store))
    IN  Picked(IF IsSome(a.selection.remembered_email_index)
               THEN [a EXCEPT !.selection.email_index = Unwrap(a.selection.remembered_email_index),
                              !.email_store = select_email(@, Unwrap(a.selection.remembered_email_index))]
               ELSE IF get_current_folder(a.email_store).emails # << >>
                    THEN [a EXCEPT !.selection.email_index = 0,
                                   !.email_store = select_email(@, 0)]
                    ELSE a)

\* the snapshot of switch_pane and prev_view: remember the highlighted index, deselect
RememberSelection(a) ==
    LET b == IF IsSome(a.email_store.selected_email)
             THEN [a EXCEPT !.selection.remembered_email_index = Some(a.selection.email_index)]
             ELSE a
    IN  [b EXCEPT !.email_store.selected_email = None]

\* switch_pane that stops at the ends of the pane list
switch_pane_stopping(a, direction) ==
    LET Switch(old_pane, new_pane) ==
            [(IF old_pane = "Messages" /\ new_pane = "Folders" THEN RememberSelection(a)
              ELSE IF old_pane = "Folders" /\ new_pane = "Messages" THEN RestoreSelection(a)
              ELSE a)
             EXCEPT !.active_pane = new_pane]
        At(available_panes, current_index) ==
            Switch(a.active_pane,
                   available_panes[
                       (IF direction = "Left"
                        THEN (IF current_index > 0 THEN current_index - 1 ELSE 0)
                        ELSE (IF current_index < Len(available_panes) - 1 THEN current_index + 1
                              ELSE Len(available_panes) - 1))
                       + 1])
        Of(available_panes) ==
            IF available_panes = << >> THEN a
            ELSE At(available_panes, PositionOr0(available_panes, a.active_pane))
    IN  Of(get_available_panes(a.current_view, a.content_pane_hidden))

switch_pane(a, direction) ==
    LET Switch(old_pane, new_pane) ==
            [(IF old_pane = "Messages" /\ new_pane = "Folders" THEN RememberSelection(a)
              ELSE IF old_pane = "Folders" /\ new_pane = "Messages" THEN RestoreSelection(a)
              ELSE a)
             EXCEPT !.active_pane = new_pane]
        At(available_panes, current_index) ==
            Switch(a.active_pane,
                   available_panes[
                       (IF direction = "Left"
                        THEN (IF current_index > 0 THEN current_index - 1 ELSE Len(available_panes) - 1)
                        ELSE (IF current_index < Len(available_panes) - 1 THEN current_index + 1 ELSE 0))
                       + 1])
        Of(available_panes) ==
            IF available_panes = << >> THEN a
            ELSE At(available_panes, PositionOr0(available_panes, a.active_pane))
    IN  Of(get_available_panes(a.current_view, a.content_pane_hidden))

App_next_view(a) ==
    LET nv == View_next_view(a.current_view, a.content_pane_hidden)
    IN  IF ~IsSome(nv) THEN a
        ELSE LET new_view == Unwrap(nv)
                 b == IF a.current_view = "FolderMessages" /\ new_view = "MessagesContent"
                      THEN RestoreSelection(a) ELSE a
             IN  [b EXCEPT !.current_view = new_view,
                           !.active_pane = get_default_active_pane(new_view, a.content_pane_hidden)]

App_prev_view(a) ==
    LET pv == View_prev_view(a.current_view, a.content_pane_hidden)
    IN  IF ~IsSome(pv) THEN a
        ELSE LET new_view == Unwrap(pv)
                 b == IF a.current_view = "MessagesContent" /\ new_view = "FolderMessages"
                      THEN RememberSelection(a) ELSE a
             IN  [b EXCEPT !.current_view = new_view,
                           !.active_pane = get_default_active_pane(new_view, a.content_pane_hidden)]

\* toggle_content_pane without the reset of the active pane
toggle_content_pane_keep_pane(a) ==
    LET hidden == ~a.content_pane_hidden
        view == IF hidden
                THEN (IF a.current_view = "FolderMessages" THEN "FolderMessages" ELSE "Messages")
                ELSE (IF a.current_view = "FolderMessages" THEN "FolderMessages" ELSE "MessagesContent")
    IN  [a EXCEPT !.content_pane_hidden = hidden, !.current_view = view]

toggle_content_pane(a) ==
    LET hidden == ~a.content_pane_hidden
        view == IF hidden
                THEN (IF a.current_view = "FolderMessages" THEN "FolderMessages" ELSE "Messages")
                ELSE (IF a.current_view = "FolderMessages" THEN "FolderMessages" ELSE "MessagesContent")
    IN  [a EXCEPT !.content_pane_hidden = hidden,
                  !.current_view = view,
                  !.active_pane = get_default_active_pane(view, hidden)]

\* Down stops at MaxScroll in the model (the code has no upper bound)
scroll(a, direction, amount) ==
    IF direction = "Up"
    THEN [a EXCEPT !.selection.scroll_offset = IF @ >= amount THEN @ - amount ELSE 0]
    ELSE [a EXCEPT !.selection.scroll_offset = @ + amount]

\* get_current_email_for_web that serves the selected email whatever the pane
get_current_email_for_web_any_pane(a) == get_selected_email_headers(a.email_store)

get_current_email_for_web(a) ==
    IF a.active_pane = "Folders" THEN None ELSE get_selected_email_headers(a.email_store)

\* "inbox"
InboxLower == <<105, 110, 98, 111, 120>>

\* get_display_name().eq_ignore_ascii_case("inbox"): the display name is the bare name
\* only when unread_count is 0, otherwise it ends in " (count)"
DisplayNameIsInbox(folder) ==
    /\ get_display_name(folder).count = 0
    /\ EqIgnoreAsciiCase(NameBytes(get_display_name(folder).name), InboxLower)

find_inbox_folder(a) ==
    LET root_folder == a.email_store.root_folder
        sorted == get_sorted_subfolders(root_folder)
        hit(i) == DisplayNameIsInbox(root_folder.subfolders[sorted[i]])
    IN  IF \E i \in 1..Len(sorted) : hit(i)
        THEN Some((CHOOSE i \in 1..Len(sorted) : hit(i) /\ \A j \in 1..(i - 1) : ~hit(j)) - 1)
        ELSE IF root_folder.subfolders # << >> THEN Some(0) ELSE None

auto_select_inbox_without_loading(a) ==
    LET inbox_index == find_inbox_folder(a)
    IN  IF IsSome(inbox_index) THEN [a EXCEPT !.selection.folder_index = Unwrap(inbox_index)] ELSE a

\* load_selected_folder_messages that drops the error of the load
load_selected_folder_messages_silent(a, root_dir, budget) ==
    LET Loaded(r) ==
            [a EXCEPT !.email_store = r.val,
                      !.selection.email_index = 0,
                      !.selection.remembered_email_index = None]
        Found(folder_path) ==
            IF ~IsSome(folder_path) THEN a
            ELSE Loaded(ensure_folder_at_path_loaded(a.email_store, Unwrap(folder_path),
                                                     a.message_pane_visible_rows, root_dir, budget))
    IN  Found(get_folder_path_from_display_index(a.email_store.root_folder,
                                                 a.selection.folder_index))

load_selected_folder_messages(a, root_dir, budget) ==
    LET Loaded(r) ==
            [(IF r.ok THEN a ELSE set_status(a, "Error loading folder messages"))
             EXCEPT !.email_store = r.val,
                    !.selection.email_index = 0,
                    !.selection.remembered_email_index = None]
        Found(folder_path) ==
            IF ~IsSome(folder_path) THEN a
            ELSE Loaded(ensure_folder_at_path_loaded(a.email_store, Unwrap(folder_path),
                                                     a.message_pane_visible_rows, root_dir, budget))
    IN  Found(get_folder_path_from_display_index(a.email_store.root_folder,
                                                 a.selection.folder_index))

perform_initial_loading_if_needed(a, root_dir, budget) ==
    IF ~a.initial_loading_done
    THEN [load_selected_folder_messages(a, root_dir, budget) EXCEPT !.initial_loading_done = TRUE]
    ELSE a

\* message_pane_visible_rows: 20, // Default estimate
DefaultVisibleRows == 20

AppNew(email_store) ==
    auto_select_inbox_without_loading(
        [state |-> "FolderView", active_pane |-> "Folders", current_view |-> "FolderMessages",
         content_pane_hidden |-> FALSE, selection |-> SelectionStateDefault,
         email_store |-> email_store, should_quit |-> FALSE, status_message |-> None,
         message_pane_visible_rows |-> DefaultVisibleRows, initial_loading_done |-> FALSE])

(***************************************************************************)
(* Input dispatcher (src/src/input.rs).  A handler maps the app to the app *)
(* it leaves; root_dir and budget are the file system and the I/O outcome  *)
(* of the loads the handler may start.                                     *)
(***************************************************************************)
Key(code, mods) == [kind |-> "Key", code |-> code, mods |-> mods]
ResizeEvent == [kind |-> "Resize", code |-> "", mods |-> "NONE"]
MouseEvent == [kind |-> "Mouse", code |-> "", mods |-> "NONE"]

KeyEvents ==
    { Key(c, "NONE") : c \in {"q", "?", "j", "k", "h", "l", "c", "a", "x", "Down", "Up", "Tab",
                              "BackTab", "Enter", "Backspace", "PageDown", "PageUp", "Esc"} }
    \cup { Key("c", "ALT"), Key("a", "ALT"), Key("Enter", "SHIFT"), Key("q", "CONTROL"),
           Key("j", "CONTROL") }

Events == KeyEvents \cup {ResizeEvent, MouseEvent}

handle_attachment_open(a, custom_command) ==
    LET Got(g) ==
            IF IsSome(g.res) /\ a.selection.attachment_index < Unwrap(g.res).attachments
            THEN set_status([a EXCEPT !.email_store = g.val],
                            IF custom_command THEN "Custom command: Not implemented yet"
                                              ELSE "Opening: Not implemented yet")
            ELSE [a EXCEPT !.email_store = g.val]
    IN  Got(get_selected_email(a.email_store))

\* the estimated_visible_rows of the folder entry
EstimatedVisibleRows == 20

\* the Ok arm of the folder entry; switch_view distinguishes the two callers
EnterFolder(a, switch_view, root_dir, budget) ==
    LET Switched(d) ==
            set_state(IF switch_view
                      THEN [d EXCEPT !.current_view = IF d.content_pane_hidden THEN "Messages"
                                                      ELSE "MessagesContent",
                                     !.active_pane = "Messages"]
                      ELSE d,
                      "EmailList")
        Reset(c) ==
            Switched(IF get_current_folder(c.email_store).emails # << >>
                     THEN [c EXCEPT !.email_store = select_email(@, 0)] ELSE c)
        Loaded(r) ==
            IF ~r.ok THEN set_status([a EXCEPT !.email_store = r.val], "Error loading folder")
            ELSE Reset([a EXCEPT !.email_store = r.val,
                                 !.selection.email_index = 0,
                                 !.selection.scroll_offset = 0,
                                 !.selection.remembered_email_index = None])
        Found(folder_path) ==
            IF ~IsSome(folder_path) THEN a
            ELSE Loaded(ensure_current_folder_loaded_with_limit(
                            enter_folder_by_path([a.email_store EXCEPT !.current_folder = << >>],
                                                 Unwrap(folder_path)),
                            LoadCount(EstimatedVisibleRows), root_dir, budget))
    IN  Found(get_folder_path_from_display_index(a.email_store.root_folder,
                                                 a.selection.folder_index))

\* the folder entry that leaves the view and the focus as they are
handle_folder_selection_keeping_view(a, root_dir, budget) == EnterFolder(a, FALSE, root_dir, budget)

handle_folder_selection_and_switch_view(a, root_dir, budget) == EnterFolder(a, TRUE, root_dir, budget)

handle_selection(a, root_dir, budget) ==
    CASE a.active_pane = "Folders" -> EnterFolder(a, FALSE, root_dir, budget)
      [] a.active_pane = "Messages" ->
            IF a.selection.email_index < Len(get_current_folder(a.email_store).emails)
            THEN set_state([a EXCEPT !.email_store = select_email(@, a.selection.email_index),
                                     !.current_view = IF a.content_pane_hidden THEN "Messages"
                                                      ELSE "MessagesContent",
                                     !.active_pane = "Messages"],
                           "EmailContent")
            ELSE a
      [] a.active_pane = "Content" -> a
      [] a.active_pane = "Attachments" -> handle_attachment_open(a, FALSE)

handle_back_navigation(a) ==
    CASE a.active_pane \in {"Folders", "Messages"} ->
            set_state([a EXCEPT !.email_store = exit_folder(@),
                                !.selection.folder_index = 0,
                                !.selection.email_index = 0,
                                !.selection.scroll_offset = 0],
                      "FolderView")
      [] a.active_pane = "Content" -> set_state(a, "EmailList")
      [] a.active_pane = "Attachments" ->
            set_state([a EXCEPT !.current_view = "MessagesContent", !.active_pane = "Messages"],
                      "EmailList")

\* the attachment step of handle_navigation and of handle_attachment_view_input
AttachmentDown(a) ==
    LET Got(g) ==
            IF IsSome(g.res) /\ a.selection.attachment_index + 1 < Unwrap(g.res).attachments
            THEN [a EXCEPT !.email_store = g.val, !.selection.attachment_index = @ + 1]
            ELSE [a EXCEPT !.email_store = g.val]
    IN  Got(get_selected_email(a.email_store))

AttachmentUp(a) ==
    IF a.selection.attachment_index > 0 THEN [a EXCEPT !.selection.attachment_index = @ - 1] ELSE a

handle_navigation(a, direction, root_dir, budget) ==
    CASE a.active_pane = "Folders" ->
            LET Moved(b) ==
                    IF b.selection.folder_index # a.selection.folder_index
                    THEN load_selected_folder_messages(b, root_dir, budget) ELSE b
            IN  Moved(IF direction = "Down"
                      THEN (IF a.selection.folder_index + 1
                                  < count_visible_folders(a.email_store.root_folder)
                            THEN [a EXCEPT !.selection.folder_index = @ + 1] ELSE a)
                      ELSE (IF a.selection.folder_index > 0
                            THEN [a EXCEPT !.selection.folder_index = @ - 1] ELSE a))
      [] a.active_pane = "Messages" ->
            LET More(b, r) ==
                    set_state(IF r.ok THEN [b EXCEPT !.email_store = r.val]
                              ELSE set_status([b EXCEPT !.email_store = r.val],
                                              "Error loading more messages"),
                              "EmailList")
                Selected(i, b) == More(b, load_more_messages_if_needed(b.email_store, i, root_dir, budget))
                To(i) == Selected(i, [a EXCEPT !.selection.email_index = i,
                                               !.email_store = select_email(@, i)])
                Back(i) == set_state([a EXCEPT !.selection.email_index = i,
                                               !.email_store = select_email(@, i)],
                                     "EmailList")
            IN  IF direction = "Down"
                THEN IF a.selection.email_index + 1 < Len(get_current_folder(a.email_store).emails)
                     THEN To(a.selection.email_index + 1) ELSE a
                ELSE IF a.selection.email_index > 0
                     THEN Back(a.selection.email_index - 1) ELSE a
      [] a.active_pane = "Content" -> scroll(a, direction, 1)
      [] a.active_pane = "Attachments" ->
            IF direction = "Down" THEN AttachmentDown(a) ELSE AttachmentUp(a)

\* PageDown / PageUp scroll by this many lines
PageScroll == 10

handle_main_view_input(a, key, root_dir, budget) ==
    CASE key.code = "j" /\ key.mods = "NONE" -> handle_navigation(a, "Down", root_dir, budget)
      [] key.code = "k" /\ key.mods = "NONE" -> handle_navigation(a, "Up", root_dir, budget)
      [] key.code = "Down" -> handle_navigation(a, "Down", root_dir, budget)
      [] key.code = "Up" -> handle_navigation(a, "Up", root_dir, budget)
      [] key.code = "Tab" -> switch_pane(a, "Right")
      [] key.code = "BackTab" -> switch_pane(a, "Left")
      [] key.code = "h" /\ key.mods = "NONE" -> App_prev_view(a)
      [] key.code = "l" /\ key.mods = "NONE" ->
            IF a.active_pane = "Folders" /\ a.email_store.current_folder = << >>
            THEN handle_folder_selection_and_switch_view(a, root_dir, budget)
            ELSE App_next_view(a)
      [] key.code = "c" /\ key.mods = "ALT" -> toggle_content_pane(a)
      [] key.code = "Enter" ->
            IF a.active_pane = "Folders"
            THEN handle_folder_selection_and_switch_view(a, root_dir, budget)
            ELSE handle_selection(a, root_dir, budget)
      [] key.code = "Backspace" -> handle_back_navigation(a)
      [] key.code = "a" /\ key.mods = "ALT" ->
            LET Got(g) ==
                    IF IsSome(g.res)
                    THEN IF has_attachments(Unwrap(g.res))
                         THEN set_state([a EXCEPT !.email_store = g.val], "AttachmentView")
                         ELSE set_status([a EXCEPT !.email_store = g.val],
                                         "No attachments in this email")
                    ELSE set_status([a EXCEPT !.email_store = g.val], "No email selected")
            IN  Got(get_selected_email(a.email_store))
      [] key.code = "PageDown" /\ a.active_pane = "Content" -> scroll(a, "Down", PageScroll)
      [] key.code = "PageUp" /\ a.active_pane = "Content" -> scroll(a, "Up", PageScroll)
      [] OTHER -> a

handle_attachment_view_input(a, key) ==
    CASE key.code = "Esc" -> set_state(a, "EmailContent")
      [] key.code \in {"j", "Down"} -> AttachmentDown(a)
      [] key.code \in {"k", "Up"} -> AttachmentUp(a)
      [] key.code = "Enter" /\ key.mods = "SHIFT" -> handle_attachment_open(a, TRUE)
      [] key.code = "Enter" -> handle_attachment_open(a, FALSE)
      [] OTHER -> a

\* handle_key_event: app is the app it leaves, quit the bool it returns
handle_key_event(a, key, root_dir, budget) ==
    IF key.code = "q" /\ key.mods = "NONE"
    THEN [app |-> set_state(a, "Quit"), quit |-> TRUE]
    ELSE IF key.code = "?" /\ key.mods = "NONE"
    THEN [app |-> IF a.state = "Help" THEN set_state(a, "FolderView") ELSE set_state(a, "Help"),
          quit |-> FALSE]
    ELSE CASE a.state = "Help" -> [app |-> set_state(a, "FolderView"), quit |-> FALSE]
           [] a.state = "AttachmentView" ->
                [app |-> handle_attachment_view_input(a, key), quit |-> FALSE]
           [] OTHER -> [app |-> handle_main_view_input(a, key, root_dir, budget), quit |-> FALSE]

handle_input(a, event, root_dir, budget) ==
    IF event.kind = "Key" THEN handle_key_event(a, event, root_dir, budget)
    ELSE [app |-> a, quit |-> FALSE]

(***************************************************************************)
(* Drawing (src/src/ui.rs): the panes of the current view, with the writes *)
(* they make to the app.                                                   *)
(***************************************************************************)
draw_messages_pane(a, visible_rows, root_dir, budget) ==
    perform_initial_loading_if_needed([a EXCEPT !.message_pane_visible_rows = visible_rows],
                                      root_dir, budget)

draw_content_pane(a) ==
    IF IsSome(get_selected_email_headers(a.email_store))
    THEN [a EXCEPT !.email_store = get_selected_email_markdown(@).val]
    ELSE a

draw_attachments_pane(a) == [a EXCEPT !.email_store = get_selected_email(@).val]

draw_main_layout(a, visible_rows, root_dir, budget) ==
    CASE a.current_view = "FolderMessages" -> draw_messages_pane(a, visible_rows, root_dir, budget)
      [] a.current_view = "MessagesContent" ->
            draw_content_pane(draw_messages_pane(a, visible_rows, root_dir, budget))
      [] a.current_view = "Content" -> draw_content_pane(a)
      [] a.current_view = "Messages" -> draw_messages_pane(a, visible_rows, root_dir, budget)
      [] a.current_view = "MessagesAttachments" ->
            draw_attachments_pane(draw_messages_pane(a, visible_rows, root_dir, budget))

draw(a, visible_rows, root_dir, budget) ==
    IF a.state = "Help" THEN a ELSE draw_main_layout(a, visible_rows, root_dir, budget)

\* heights of the message pane (area.height - 2) that a terminal may give
VisibleRowsSet == {20}

(***************************************************************************)
(* The render/input loop (run_app, src/src/main.rs), alone: the lock is    *)
(* uncontended, each handling is one step.                                 *)
(*   pc = "draw": about to lock, draw and test for quit                    *)
(*   pc = "poll": lock released, polling for an input event                *)
(*   pc = "done": the loop has been left                                   *)
(* The state cell (SharedAppState) and the mirror (src/src/web.rs):        *)
(*   lock: who holds the mutex, "free", "render" or "mirror"               *)
(*   handling: while the render loop is inside the handling of an event or *)
(*     of a redraw, the app as it was when the lock was taken and the      *)
(*     event; None otherwise                                               *)
(*   mirror_pc, last_email_id, current_email_id: the position and the      *)
(*     locals of one event stream                                          *)
(*   stream: the history of the event stream: sent is the last             *)
(*     notification pushed, repeated whether it carried the fingerprint of *)
(*     the one before it, poll whether the last poll pushed and whether    *)
(*     its fingerprint differed from the last notification before it       *)
(***************************************************************************)
VARIABLES app, disk, pc, lock, handling, mirror_pc, last_email_id, current_email_id, stream
mirror_vars == <<lock, handling, mirror_pc, last_email_id, current_email_id, stream>>
vars == <<app, disk, pc, lock, handling, mirror_pc, last_email_id, current_email_id, stream>>

\* the state cell unlocked, the event stream just opened, nothing fetched yet
MirrorInit ==
    /\ lock = "free"
    /\ handling = None
    /\ mirror_pc = "sleep"
    /\ last_email_id = None
    /\ current_email_id = None
    /\ stream = [sent |-> None, repeated |-> FALSE, poll |-> None]

Init ==
    /\ disk \in Disks
    /\ scan(disk, NoIoError).ok
    /\ app = AppNew([EmailStoreNew EXCEPT !.root_folder = scan(disk, NoIoError).val])
    /\ pc = "draw"
    /\ MirrorInit

Draw ==
    /\ pc = "draw"
    /\ \E visible_rows \in VisibleRowsSet, budget \in IoBudgets :
          app' = draw(app, visible_rows, disk, budget)
    /\ pc' = IF app'.should_quit \/ app'.state = "Quit" THEN "done" ELSE "poll"
    /\ UNCHANGED disk
    /\ UNCHANGED mirror_vars

PollTimeout ==
    /\ pc = "poll"
    /\ pc' = "draw"
    /\ UNCHANGED <<app, disk>>
    /\ UNCHANGED mirror_vars

\* the input step of a loop that does not break when the handler asks to quit
HandleEvent_keeps_looping ==
    /\ pc = "poll"
    /\ \E event \in Events, budget \in IoBudgets :
          LET Handled(r) == /\ r.app.selection.scroll_offset <= MaxScroll
                            /\ app' = r.app
                            /\ pc' = "draw"
          IN  Handled(handle_input(IF event.kind # "Resize" THEN clear_status(app) ELSE app,
                                   event, disk, budget))
    /\ UNCHANGED disk
    /\ UNCHANGED mirror_vars

HandleEvent ==
    /\ pc = "poll"
    /\ \E event \in Events, budget \in IoBudgets :
          LET Handled(r) == /\ r.app.selection.scroll_offset <= MaxScroll
                            /\ app' = r.app
                            /\ pc' = IF r.quit THEN "done" ELSE "draw"
          IN  Handled(handle_input(IF event.kind # "Resize" THEN clear_status(app) ELSE app,
                                   event, disk, budget))
    /\ UNCHANGED disk
    /\ UNCHANGED mirror_vars

Next == Draw \/ PollTimeout \/ HandleEvent

Spec == Init /\ [][Next]_vars

(***************************************************************************)
(* The mirror (src/src/web.rs).  A string is the sequence of its           *)
(* characters.                                                             *)
(***************************************************************************)
DigitChar(d) == <<"0", "1", "2", "3", "4", "5", "6", "7", "8", "9">>[d + 1]

\* Display of a usize
RECURSIVE ToDecimal(_)
ToDecimal(n) == IF n < 10 THEN <<DigitChar(n)>> ELSE ToDecimal(n \div 10) \o <<DigitChar(n % 10)>>

\* Display of a bool
BoolText(b) == IF b THEN <<"t", "r", "u", "e">> ELSE <<"f", "a", "l", "s", "e">>

\* format!("{}:{}:{}", folder_index, email_index, has_email)
FormatEmailId(folder_index, email_index, has_email) ==
    ToDecimal(folder_index) \o <<":">> \o ToDecimal(email_index) \o <<":">> \o BoolText(has_email)

\* the lock scope of email_events, selecting in the store the email under the cursor before
\* it reads
ReadFingerprint_selecting(a) ==
    [app |-> [a EXCEPT !.email_store = select_email(@, a.selection.email_index)],
     id |-> FormatEmailId(a.selection.folder_index, a.selection.email_index,
                          IsSome(get_current_email_for_web(a)))]

\* the lock scope of email_events: app is the app it leaves (the guard is only read through),
\* id the fingerprint
ReadFingerprint(a) ==
    [app |-> a,
     id |-> FormatEmailId(a.selection.folder_index, a.selection.email_index,
                          IsSome(get_current_email_for_web(a)))]

\* get_current_email_json: app is the app it leaves, data the projection of the focused message
get_current_email_json(a) ==
    [app |-> a,
     data |-> [has_email |-> IsSome(get_current_email_for_web(a)),
               email |-> get_current_email_for_web(a),
               email_id |-> FormatEmailId(a.selection.folder_index, a.selection.email_index,
                                          IsSome(get_current_email_for_web(a)))]]

\* the keys the user presses while the mirror runs
MirrorEvents ==
    { Key(c, "NONE") : c \in {"q", "j", "h", "Tab", "Enter", "Backspace"} }

(***************************************************************************)
(* The render/input loop and the mirror sharing the state cell.  A         *)
(* handling is now several steps: taking the lock, the first writes (the   *)
(* status and the store, as in the folder entry and in the back            *)
(* navigation), the remaining writes with the release of the lock.  Loads  *)
(* meet no I/O error here.                                                 *)
(*   pc = "drawing": the lock is held for a redraw                         *)
(*   pc = "handling", "mutating": the lock is held for an input event      *)
(*   mirror_pc = "sleep", "locked", "compare": the poll of the stream      *)
(*   mirror_pc = "fetch", "fetching": the viewer's request for the         *)
(*     projection, which it makes on each notification                     *)
(***************************************************************************)
\* the mail directory of the runs with the mirror: INBOX with two messages, Sent empty
MirrorDisk ==
    Dir("Mail", << >>,
        << MailDirOf("INBOX", <<1, 2>>, << >>, << >>),
           MailDirOf("Sent", << >>, << >>, << >>) >>)

MirrorSpecInit ==
    /\ disk = MirrorDisk
    /\ scan(disk, NoIoError).ok
    /\ app = AppNew([EmailStoreNew EXCEPT !.root_folder = scan(disk, NoIoError).val])
    /\ pc = "draw"
    /\ MirrorInit

RenderLockForDraw ==
    /\ pc = "draw"
    /\ lock = "free"
    /\ lock' = "render"
    /\ handling' = Some([before |-> app, event |-> None])
    /\ pc' = "drawing"
    /\ UNCHANGED <<app, disk, mirror_pc, last_email_id, current_email_id, stream>>

\* the redraw of a render loop that keeps the lock while it goes on to wait for input
RenderDraw_holding ==
    /\ pc = "drawing"
    /\ \E visible_rows \in VisibleRowsSet : app' = draw(app, visible_rows, disk, NoIoError)
    /\ pc' = IF app'.should_quit \/ app'.state = "Quit" THEN "done" ELSE "poll"
    /\ lock' = "render"
    /\ handling' = None
    /\ UNCHANGED <<disk, mirror_pc, last_email_id, current_email_id, stream>>

RenderDraw ==
    /\ pc = "drawing"
    /\ \E visible_rows \in VisibleRowsSet : app' = draw(app, visible_rows, disk, NoIoError)
    /\ pc' = IF app'.should_quit \/ app'.state = "Quit" THEN "done" ELSE "poll"
    /\ lock' = "free"
    /\ handling' = None
    /\ UNCHANGED <<disk, mirror_pc, last_email_id, current_email_id, stream>>

RenderPollTimeout ==
    /\ pc = "poll"
    /\ pc' = "draw"
    /\ UNCHANGED <<app, disk>>
    /\ UNCHANGED mirror_vars

\* what one event makes of the app as it was when the lock was taken
HandledEvent(h) ==
    handle_input(IF Unwrap(h.event).kind # "Resize" THEN clear_status(h.before) ELSE h.before,
                 Unwrap(h.event), disk, NoIoError)

RenderLockForEvent ==
    /\ pc = "poll"
    /\ lock = "free"
    /\ \E event \in MirrorEvents :
          /\ handling' = Some([before |-> app, event |-> Some(event)])
          /\ HandledEvent(Unwrap(handling')).app.selection.scroll_offset <= MaxScroll
    /\ lock' = "render"
    /\ pc' = "handling"
    /\ UNCHANGED <<app, disk, mirror_pc, last_email_id, current_email_id, stream>>

RenderMutate ==
    /\ pc = "handling"
    /\ app' = [app EXCEPT !.status_message = HandledEvent(Unwrap(handling)).app.status_message,
                          !.email_store = HandledEvent(Unwrap(handling)).app.email_store]
    /\ pc' = "mutating"
    /\ UNCHANGED <<disk, lock, handling, mirror_pc, last_email_id, current_email_id, stream>>

\* the release of a render loop that lets go of the lock before the rest of the writes
RenderRelease_early ==
    /\ pc = "mutating"
    /\ lock' = "free"
    /\ pc' = "mutating"
    /\ UNCHANGED <<app, disk, handling, mirror_pc, last_email_id, current_email_id, stream>>

RenderRelease ==
    /\ pc = "mutating"
    /\ app' = HandledEvent(Unwrap(handling)).app
    /\ pc' = IF HandledEvent(Unwrap(handling)).quit THEN "done" ELSE "draw"
    /\ lock' = "free"
    /\ handling' = None
    /\ UNCHANGED <<disk, mirror_pc, last_email_id, current_email_id, stream>>

MirrorLock ==
    /\ mirror_pc = "sleep"
    /\ lock = "free"
    /\ lock' = "mirror"
    /\ mirror_pc' = "locked"
    /\ UNCHANGED <<app, disk, pc, handling, last_email_id, current_email_id, stream>>

MirrorRead ==
    /\ mirror_pc = "locked"
    /\ app' = ReadFingerprint(app).app
    /\ current_email_id' = Some(ReadFingerprint(app).id)
    /\ lock' = "free"
    /\ mirror_pc' = "compare"
    /\ UNCHANGED <<disk, pc, handling, last_email_id, stream>>

\* the comparison of a stream that records the fingerprint read and pushes nothing
MirrorCompare_quiet ==
    /\ mirror_pc = "compare"
    /\ last_email_id' = current_email_id
    /\ stream' = [stream EXCEPT !.poll = Some([pushed |-> FALSE,
                                               differed |-> (stream.sent # current_email_id)])]
    /\ mirror_pc' = "sleep"
    /\ current_email_id' = None
    /\ UNCHANGED <<app, disk, pc, lock, handling>>

\* the comparison of a stream that notifies at every poll
MirrorCompare_always ==
    /\ mirror_pc = "compare"
    /\ last_email_id' = current_email_id
    /\ stream' = [sent |-> current_email_id,
                  repeated |-> (stream.sent = current_email_id),
                  poll |-> Some([pushed |-> TRUE, differed |-> (stream.sent # current_email_id)])]
    /\ mirror_pc' = "fetch"
    /\ current_email_id' = None
    /\ UNCHANGED <<app, disk, pc, lock, handling>>

MirrorCompare ==
    /\ mirror_pc = "compare"
    /\ IF last_email_id # current_email_id
       THEN /\ last_email_id' = current_email_id
            /\ stream' = [sent |-> current_email_id,
                          repeated |-> (stream.sent = current_email_id),
                          poll |-> Some([pushed |-> TRUE,
                                         differed |-> (stream.sent # current_email_id)])]
            /\ mirror_pc' = "fetch"
       ELSE /\ last_email_id' = last_email_id
            /\ stream' = [stream EXCEPT !.poll = Some([pushed |-> FALSE,
                                                       differed |-> (stream.sent # current_email_id)])]
            /\ mirror_pc' = "sleep"
    /\ current_email_id' = None
    /\ UNCHANGED <<app, disk, pc, lock, handling>>

FetchLock ==
    /\ mirror_pc = "fetch"
    /\ lock = "free"
    /\ lock' = "mirror"
    /\ mirror_pc' = "fetching"
    /\ UNCHANGED <<app, disk, pc, handling, last_email_id, current_email_id, stream>>

FetchRead ==
    /\ mirror_pc = "fetching"
    /\ app' = get_current_email_json(app).app
    /\ lock' = "free"
    /\ mirror_pc' = "sleep"
    /\ UNCHANGED <<disk, pc, handling, last_email_id, current_email_id, stream>>

MirrorNext ==
    \/ RenderLockForDraw \/ RenderDraw \/ RenderPollTimeout
    \/ RenderLockForEvent \/ RenderMutate \/ RenderRelease
    \/ MirrorLock \/ MirrorRead \/ MirrorCompare \/ FetchLock \/ FetchRead

MirrorSpec == MirrorSpecInit /\ [][MirrorNext]_vars

(***************************************************************************)
(* The render/input loop over a mail directory whose folder beside INBOX   *)
(* holds two messages, so that a capped load of it is followed by a full   *)
(* load when the cursor moves down its list.                               *)
(***************************************************************************)
\* an empty INBOX, Sent with a read and an unread message
LoadDisk ==
    Dir("Mail", << >>,
        << MailDirOf("INBOX", << >>, << >>, << >>),
           MailDirOf("Sent", <<2>>, <<4>>, << >>) >>)

LoadSpecInit ==
    /\ disk = LoadDisk
    /\ scan(disk, NoIoError).ok
    /\ app = AppNew([EmailStoreNew EXCEPT !.root_folder = scan(disk, NoIoError).val])
    /\ pc = "draw"
    /\ MirrorInit

\* no folder of the tree holds more than MaxEmails emails
RECURSIVE EmailsWithin(_)
EmailsWithin(folder) ==
    /\ Len(folder.emails) <= MaxEmails
    /\ \A i \in 1..Len(folder.subfolders) : EmailsWithin(folder.subfolders[i])

\* the keys of the walk to a folder, into its list and down the list
LoadEvents ==
    { Key(c, "NONE") : c \in {"q", "j", "k", "Tab", "Enter"} }

LoadHandleEvent ==
    /\ pc = "poll"
    /\ \E event \in LoadEvents, budget \in IoBudgets :
          LET Handled(r) == /\ r.app.selection.scroll_offset <= MaxScroll
                            /\ app' = r.app
                            /\ pc' = IF r.quit THEN "done" ELSE "draw"
          IN  Handled(handle_input(clear_status(app), event, disk, budget))
    /\ UNCHANGED disk
    /\ UNCHANGED mirror_vars

LoadNext ==
    \/ Draw /\ EmailsWithin(app'.email_store.root_folder)
    \/ PollTimeout
    \/ LoadHandleEvent /\ EmailsWithin(app'.email_store.root_folder)

LoadSpec == LoadSpecInit /\ [][LoadNext]_vars

(***************************************************************************)
(* The render/input loop over a mail directory whose only folder holds one *)
(* message more than the capped load of a folder entry fetches, so that    *)
(* the folder stays not loaded with a list long enough for the cursor to   *)
(* be far from its end.                                                    *)
(***************************************************************************)
LongDisk ==
    Dir("Mail", << >>,
        << MailDirOf("Archive", [i \in 1..(LoadCount(EstimatedVisibleRows) + 1) |-> 2],
                     << >>, << >>) >>)

LongSpecInit ==
    /\ disk = LongDisk
    /\ scan(disk, NoIoError).ok
    /\ app = AppNew([EmailStoreNew EXCEPT !.root_folder = scan(disk, NoIoError).val])
    /\ pc = "draw"
    /\ MirrorInit

\* the list of the folder grows with every full load that follows a capped or a failed load;
\* the runs stop growing it once it exceeds two loads by more than MaxEmails emails
LongEmailsWithin(a) ==
    \A i \in 1..Len(a.email_store.root_folder.subfolders) :
        Len(a.email_store.root_folder.subfolders[i].emails)
            <= 2 * (LoadCount(EstimatedVisibleRows) + 1) + MaxEmails

LongNext ==
    \/ Draw /\ LongEmailsWithin(app')
    \/ PollTimeout
    \/ LoadHandleEvent /\ LongEmailsWithin(app')

LongSpec == LongSpecInit /\ [][LongNext]_vars

(***************************************************************************)
(* The operations of EmailStore applied one at a time to a store whose     *)
(* current_folder is any index path, well formed or not.  The store is     *)
(* app.email_store; handling records the operation applied last, its       *)
(* argument and the store it was applied to.                               *)
(***************************************************************************)
\* the index paths, out-of-range indices included
Paths == UNION { [1..n -> 0..MaxIndex] : n \in 0..MaxPathLen }

\* n calls of exit_folder
RECURSIVE ExitTimes(_, _)
ExitTimes(store, n) == IF n = 0 THEN store ELSE ExitTimes(exit_folder(store), n - 1)

StoreSpecInit ==
    /\ disk = DiskA
    /\ scan(disk, NoIoError).ok
    /\ \E path \in Paths :
          app = AppNew([EmailStoreNew EXCEPT !.root_folder = scan(disk, NoIoError).val,
                                             !.current_folder = path])
    /\ pc = "store"
    /\ MirrorInit

Applied(op, arg, store) ==
    /\ app' = [app EXCEPT !.email_store = store]
    /\ handling' = Some([op |-> op, arg |-> arg, before |-> app.email_store])
    /\ UNCHANGED <<disk, pc, lock, mirror_pc, last_email_id, current_email_id, stream>>

StoreSelectEmail ==
    \E email_index \in 0..MaxIndex :
        Applied("select_email", email_index, select_email(app.email_store, email_index))

StoreEnterFolderByPath ==
    \E path \in Paths :
        /\ Len(app.email_store.current_folder) + Len(path) <= MaxPathLen
        /\ Applied("enter_folder_by_path", path, enter_folder_by_path(app.email_store, path))

StoreExitFolder ==
    Applied("exit_folder", << >>, exit_folder(app.email_store))

StoreNext == StoreSelectEmail \/ StoreEnterFolderByPath \/ StoreExitFolder

StoreSpec == StoreSpecInit /\ [][StoreNext]_vars

(***************************************************************************)
(* The operations of the scanner, of the store and of a message applied    *)
(* one at a time to a store as scan() leaves it.  The store is             *)
(* app.email_store.                                                        *)
(***************************************************************************)
\* INBOX with one message, Sent with two read messages and an unread one the parser rejects
LoaderDisk ==
    Dir("Mail", << >>,
        << MailDirOf("INBOX", <<1>>, << >>, << >>),
           MailDirOf("Sent", <<2, 4>>, <<3>>, << >>) >>)

LoaderSpecInit ==
    /\ disk = LoaderDisk
    /\ scan(disk, NoIoError).ok
    /\ app = AppNew([EmailStoreNew EXCEPT !.root_folder = scan(disk, NoIoError).val])
    /\ pc = "loader"
    /\ MirrorInit

\* no message of the tree holds more than MaxAttachments attachments
RECURSIVE AttachmentsWithin(_)
AttachmentsWithin(folder) ==
    /\ \A i \in 1..Len(folder.emails) : folder.emails[i].attachments <= MaxAttachments
    /\ \A i \in 1..Len(folder.subfolders) : AttachmentsWithin(folder.subfolders[i])

LoaderOps ==
    {"enter_folder_by_path", "exit_folder", "select_email", "load_folder_emails",
     "ensure_current_folder_loaded_with_limit", "ensure_folder_at_path_loaded",
     "load_more_messages_if_needed", "get_selected_email", "parse_headers_only"}

\* the operations of the store, of the scanner and of a message that can be applied to the
\* store, each with every input, and what they leave: op and arg (the index, the limit or the
\* index path given, as a sequence) name the call, ok is its Result and val the store after it
LoaderOutcomes(store, op) ==
    LET Outcome(arg, r) == [op |-> op, arg |-> arg, ok |-> r.ok, val |-> r.val]
        Stored(r) == [ok |-> r.ok, val |-> set_current_folder(store, r.val)]
        Got(g) == [ok |-> IsSome(g.res), val |-> g.val]
        Parsed(current, index, r) ==
            Stored([ok |-> r.ok, val |-> [current EXCEPT !.emails[index + 1] = r.val]])
        ParsedAt(current, index) ==
            Parsed(current, index, parse_headers_only(current.emails[index + 1]))
    IN  CASE op = "enter_folder_by_path" ->
                { Outcome(<<index>>, [ok |-> TRUE, val |-> enter_folder_by_path(store, <<index>>)]) :
                    index \in 0..(Len(get_current_folder(store).subfolders) - 1) }
          [] op = "exit_folder" ->
                { Outcome(<< >>, [ok |-> TRUE, val |-> exit_folder(store)]) }
          [] op = "select_email" ->
                { Outcome(<<email_index>>, [ok |-> TRUE, val |-> select_email(store, email_index)]) :
                    email_index \in 0..Len(get_current_folder(store).emails) }
          \* scanner.load_folder_emails(store.get_current_folder_mut())
          [] op = "load_folder_emails" ->
                { Outcome(<< >>, Stored(load_folder_emails(get_current_folder(store), disk, budget))) :
                    budget \in IoBudgets }
          [] op = "ensure_current_folder_loaded_with_limit" ->
                { Outcome(<<x[1]>>,
                          ensure_current_folder_loaded_with_limit(store, x[1], disk, x[2])) :
                    x \in (1..MaxLimit) \X IoBudgets }
          [] op = "ensure_folder_at_path_loaded" ->
                { Outcome(<<x[1]>>,
                          ensure_folder_at_path_loaded(store, <<x[1]>>, x[2], disk, x[3])) :
                    x \in (0..(Len(store.root_folder.subfolders) - 1))
                             \X VisibleRowsSet \X IoBudgets }
          [] op = "load_more_messages_if_needed" ->
                { Outcome(<<x[1]>>, load_more_messages_if_needed(store, x[1], disk, x[2])) :
                    x \in (0..Len(get_current_folder(store).emails)) \X IoBudgets }
          [] op = "get_selected_email" ->
                { Outcome(<< >>, Got(get_selected_email(store))) }
          \* store.get_selected_email_mut().map(|email| email.parse_headers_only())
          [] op = "parse_headers_only" ->
                { Outcome(<<index>>, ParsedAt(get_current_folder(store), index)) :
                    index \in { i \in 0..(Len(get_current_folder(store).emails) - 1) :
                                  store.selected_email = Some(i) } }

\* one operation is applied to the store of the app
LoaderApplied(op) ==
    \E o \in LoaderOutcomes(app.email_store, op) :
        /\ EmailsWithin(o.val.root_folder)
        /\ AttachmentsWithin(o.val.root_folder)
        /\ app' = [app EXCEPT !.email_store = o.val]
        /\ UNCHANGED <<disk, pc>>
        /\ UNCHANGED mirror_vars

LoaderEnterFolder == LoaderApplied("enter_folder_by_path")

LoaderExitFolder == LoaderApplied("exit_folder")

LoaderSelectEmail == LoaderApplied("select_email")

LoaderFullLoad == LoaderApplied("load_folder_emails")

LoaderCappedLoad == LoaderApplied("ensure_current_folder_loaded_with_limit")

LoaderCappedLoadAtPath == LoaderApplied("ensure_folder_at_path_loaded")

LoaderLoadMore == LoaderApplied("load_more_messages_if_needed")

LoaderGetSelectedEmail == LoaderApplied("get_selected_email")

LoaderParseHeadersOnly == LoaderApplied("parse_headers_only")

LoaderNext ==
    \/ LoaderEnterFolder \/ LoaderExitFolder \/ LoaderSelectEmail
    \/ LoaderFullLoad \/ LoaderCappedLoad \/ LoaderCappedLoadAtPath \/ LoaderLoadMore
    \/ LoaderGetSelectedEmail \/ LoaderParseHeadersOnly

LoaderSpec == LoaderSpecInit /\ [][LoaderNext]_vars

(***************************************************************************)
(* The render/input loop over every mail directory whose root holds up to  *)
(* MaxChildren of four maildirs, in any storage order (read_dir gives no   *)
(* order).                                                                 *)
(***************************************************************************)
\* an inbox under two spellings, an empty maildir, a maildir with a nested one
TreePool ==
    { MailDirOf("INBOX", <<2>>, << >>, << >>),
      MailDirOf("Inbox", <<2>>, << >>, << >>),
      MailDirOf("Sent", << >>, << >>, << >>),
      MailDirOf("Archive", <<1>>, << >>, << MailDirOf("Old", <<2>>, << >>, << >>) >>) }

TreeDisks ==
    { Dir("Mail", << >>, subdirs) :
        subdirs \in UNION { { s \in [1..n -> TreePool] :
                                \A i, j \in 1..n : i # j => s[i] # s[j] } : n \in 0..MaxChildren } }

TreeSpecInit ==
    /\ disk \in TreeDisks
    /\ scan(disk, NoIoError).ok
    /\ app = AppNew([EmailStoreNew EXCEPT !.root_folder = scan(disk, NoIoError).val])
    /\ pc = "draw"
    /\ MirrorInit

\* the keys of the folder pane: moving the highlight, entering a folder, going back
TreeEvents ==
    { Key(c, "NONE") : c \in {"j", "k", "Enter", "l", "Backspace"} } \cup { Key("c", "ALT") }

TreeDraw ==
    /\ pc = "draw"
    /\ \E visible_rows \in VisibleRowsSet, budget \in IoBudgets :
          app' = draw(app, visible_rows, disk, budget)
    /\ pc' = IF app'.should_quit \/ app'.state = "Quit" THEN "done" ELSE "poll"
    /\ UNCHANGED disk
    /\ UNCHANGED mirror_vars

TreeHandleEvent ==
    /\ pc = "poll"
    /\ \E event \in TreeEvents, budget \in IoBudgets :
          LET Handled(r) == /\ r.app.selection.scroll_offset <= MaxScroll
                            /\ app' = r.app
                            /\ pc' = IF r.quit THEN "done" ELSE "draw"
          IN  Handled(handle_input(clear_status(app), event, disk, budget))
    /\ UNCHANGED disk
    /\ UNCHANGED mirror_vars

TreeNext ==
    \/ TreeDraw /\ EmailsWithin(app'.email_store.root_folder)
    \/ TreeHandleEvent /\ EmailsWithin(app'.email_store.root_folder)

TreeSpec == TreeSpecInit /\ [][TreeNext]_vars

(***************************************************************************)
(* Properties.                                                             *)
(***************************************************************************)
SelectedEmail(a) == a.email_store.selected_email
EmailCount(a) == Len(get_current_folder(a.email_store).emails)
Remembered(a) == a.selection.remembered_email_index

ListAndContent(a) == a.current_view = "MessagesContent" /\ ~a.content_pane_hidden
ListOnly(a) == a.current_view = "Messages" /\ a.content_pane_hidden
FolderAndList(a) == a.current_view = "FolderMessages"

\* one prev_view / next_view pair
RoundTrip(a) == App_next_view(App_prev_view(a))

\* C1: from ListAndContent with message K selected, prev_view gives FolderAndList
\* with nothing selected and K remembered, next_view gives back ListAndContent with K selected
\* and highlighted, and so does every further prev_view / next_view pair.
C1_RoundTripAnySelection ==
    (ListAndContent(app) /\ IsSome(SelectedEmail(app)) /\ Unwrap(SelectedEmail(app)) < EmailCount(app))
    => LET K == Unwrap(SelectedEmail(app))
           Stepped(a) == /\ FolderAndList(App_prev_view(a))
                         /\ SelectedEmail(App_prev_view(a)) = None
                         /\ Remembered(App_prev_view(a)) = Some(K)
                         /\ ListAndContent(RoundTrip(a))
                         /\ SelectedEmail(RoundTrip(a)) = Some(K)
                         /\ RoundTrip(a).selection.email_index = K
       IN  Stepped(app) /\ Stepped(RoundTrip(app)) /\ Stepped(RoundTrip(RoundTrip(app)))

\* C2: from ListOnly with message K selected, prev_view gives FolderAndList with
\* nothing selected and K remembered, and next_view gives back ListOnly with K selected.
C2_RoundTripContentHidden ==
    (ListOnly(app) /\ IsSome(SelectedEmail(app)) /\ Unwrap(SelectedEmail(app)) < EmailCount(app))
    => LET K == Unwrap(SelectedEmail(app))
       IN  /\ FolderAndList(App_prev_view(app))
           /\ SelectedEmail(App_prev_view(app)) = None
           /\ Remembered(App_prev_view(app)) = Some(K)
           /\ ListOnly(RoundTrip(app))
           /\ SelectedEmail(RoundTrip(app)) = Some(K)

\* C4: the selected email, when there is one, is an index into the emails of the current folder.
C4_SelectionValid ==
    IsSome(SelectedEmail(app)) => Unwrap(SelectedEmail(app)) < EmailCount(app)

\* C5: the active pane is one of the panes of the current view.
C5_ActivePaneAvailable ==
    Contains(get_available_panes(app.current_view, app.content_pane_hidden), app.active_pane)

ShownGraph == {"FolderMessages", "MessagesContent", "Content"}
HiddenGraph == {"FolderMessages", "Messages", "MessagesAttachments"}
GraphOf(content_hidden) == IF content_hidden THEN HiddenGraph ELSE ShownGraph

\* the current view is a node of the graph of the current mode
C6_ViewInGraph == app.current_view \in GraphOf(app.content_pane_hidden)

\* where a toggle lands
C6_ToggleRemaps ==
    LET b == toggle_content_pane(app)
    IN  /\ (ListAndContent(app) \/ (app.current_view = "Content" /\ ~app.content_pane_hidden))
              => ListOnly(b)
        /\ (ListOnly(app) \/ (app.current_view = "MessagesAttachments" /\ app.content_pane_hidden))
              => ListAndContent(b)
        /\ FolderAndList(app) => FolderAndList(b)

\* C6: the current view belongs to the view graph of the content visibility; a
\* toggle in ListAndContent / ContentOnly gives ListOnly, a toggle in ListOnly /
\* ListAndAttachments gives ListAndContent, and a toggle keeps FolderAndList.
C6_ViewGraph == C6_ViewInGraph /\ C6_ToggleRemaps

\* switch_pane away from the message list of FolderAndList, in the given direction
C3_ToFolders(direction) ==
    (FolderAndList(app) /\ app.active_pane = "Messages")
    => LET b == switch_pane(app, direction)
       IN  /\ b.active_pane = "Folders"
           /\ SelectedEmail(b) = None
           /\ IsSome(SelectedEmail(app)) => Remembered(b) = SelectedEmail(app)
           /\ ~IsSome(SelectedEmail(app)) => Remembered(b) = Remembered(app)

\* switch_pane from the folder pane of FolderAndList to the message list
C3_ToMessages(direction) ==
    (FolderAndList(app) /\ app.active_pane = "Folders")
    => LET b == switch_pane(app, direction)
       IN  /\ b.active_pane = "Messages"
           /\ IF IsSome(Remembered(app)) THEN SelectedEmail(b) = Remembered(app)
              ELSE IF EmailCount(app) > 0 THEN SelectedEmail(b) = Some(0)
              ELSE SelectedEmail(b) = None

C3_ToFoldersBoth == \A d \in {"Left", "Right"} : C3_ToFolders(d)
C3_ToMessagesBoth == \A d \in {"Left", "Right"} : C3_ToMessages(d)

\* C3: in FolderAndList, switch_pane from the message list to the folder pane
\* remembers the selected index if there is one and leaves nothing selected; switch_pane from
\* the folder pane to the message list selects the remembered index if there is one, else
\* message 0 if the current folder has messages, else nothing.
C3_PaneCyclingKeepsMemory == C3_ToFoldersBoth /\ C3_ToMessagesBoth

\* the edges of the two view graphs
GraphNext(view, content_hidden) ==
    IF content_hidden
    THEN CASE view = "FolderMessages" -> Some("Messages")
           [] view = "Messages" -> Some("MessagesAttachments")
           [] view = "MessagesAttachments" -> None
    ELSE CASE view = "FolderMessages" -> Some("MessagesContent")
           [] view = "MessagesContent" -> Some("Content")
           [] view = "Content" -> None

GraphPrev(view, content_hidden) ==
    IF \E u \in GraphOf(content_hidden) : GraphNext(u, content_hidden) = Some(view)
    THEN Some(CHOOSE u \in GraphOf(content_hidden) : GraphNext(u, content_hidden) = Some(view))
    ELSE None

\* C7: in each mode View::next_view follows the edges of the mode's graph, View::prev_view the
\* reverse edges, None comes exactly at the last view (next) and at FolderAndList (prev), and
\* App::next_view / App::prev_view leave current_view alone or move it along such an edge.
C7_ViewEdges ==
    /\ \A h \in BOOLEAN : \A v \in GraphOf(h) :
          /\ View_next_view(v, h) = GraphNext(v, h)
          /\ View_prev_view(v, h) = GraphPrev(v, h)
          /\ (View_next_view(v, h) = None) <=> (v = IF h THEN "MessagesAttachments" ELSE "Content")
          /\ (View_prev_view(v, h) = None) <=> (v = "FolderMessages")
    /\ LET v == app.current_view
           h == app.content_pane_hidden
           along(e) == IF v \in GraphOf(h) /\ IsSome(e) THEN Unwrap(e) ELSE v
       IN  /\ App_next_view(app).current_view = along(IF v \in GraphOf(h) THEN GraphNext(v, h) ELSE None)
           /\ App_prev_view(app).current_view = along(IF v \in GraphOf(h) THEN GraphPrev(v, h) ELSE None)

DoubleToggle(a) == toggle_content_pane(toggle_content_pane(a))

\* C8: two toggles in a row give back current_view and active_pane.
C8_DoubleToggleIdentity ==
    /\ DoubleToggle(app).current_view = app.current_view
    /\ DoubleToggle(app).active_pane = app.active_pane

\* the states a toggle does not fold: FolderAndList, ListAndContent or ListOnly, default pane active
ToggleStable(a) ==
    /\ FolderAndList(a) \/ ListAndContent(a) \/ ListOnly(a)
    /\ a.active_pane = get_default_active_pane(a.current_view, a.content_pane_hidden)

\* C8, restricted: two toggles in a row give back content_pane_hidden always, and give back
\* current_view and active_pane exactly when the first toggle is made in FolderAndList,
\* ListAndContent or ListOnly with the default pane of that view active.
C8_DoubleToggleWhereStable ==
    /\ DoubleToggle(app).content_pane_hidden = app.content_pane_hidden
    /\ ToggleStable(app) <=> C8_DoubleToggleIdentity

KeyQ == Key("q", "NONE")
KeyAltA == Key("a", "ALT")

\* the q key is accepted by the handler in the current state
QuitAccepted ==
    \A budget \in IoBudgets :
        LET r == handle_input(clear_status(app), KeyQ, disk, budget)
        IN  r.quit /\ r.app.state = "Quit" /\ r.app.should_quit

\* C9: q is accepted in every app state and sets state = Quit and should_quit; once quit,
\* the loop has been left and the app state never changes again.
C9_QuitTerminal ==
    /\ [](pc = "poll" => QuitAccepted)
    /\ []((app.state = "Quit" \/ app.should_quit) => (pc = "done" /\ app.state = "Quit" /\ app.should_quit))
    /\ [][(app.state = "Quit" \/ pc = "done") => (app' = app /\ pc' = pc)]_vars

\* the selected message, fully loaded, has at least one attachment
SelectedHasAttachments(a) ==
    LET g == get_selected_email(a.email_store)
    IN  IsSome(g.res) /\ Unwrap(g.res).attachments >= 1

\* C10: AttachmentView is only ever the state when a message with at least one attachment is
\* selected; Alt+a with no such message sets a status message and keeps the app state, the
\* view, the pane and the selection.
C10_AttachmentViewGuard ==
    /\ app.state = "AttachmentView" => SelectedHasAttachments(app)
    /\ (pc = "poll" /\ app.state \notin {"Help", "AttachmentView"})
       => \A budget \in IoBudgets :
            LET r == handle_input(clear_status(app), KeyAltA, disk, budget).app
            IN  IF SelectedHasAttachments(app)
                THEN r.state = "AttachmentView"
                ELSE /\ IsSome(r.status_message)
                     /\ r.state = app.state
                     /\ r.current_view = app.current_view
                     /\ r.active_pane = app.active_pane
                     /\ r.selection = app.selection
                     /\ SelectedEmail(r) = SelectedEmail(app)

(***************************************************************************)
(* Witnesses: reachable states in which the case of a claim has happened.  *)
(***************************************************************************)
\* INBOX has been entered and its last message is the selected one
C4_Witness ==
    /\ app.email_store.current_folder = <<1>>
    /\ EmailCount(app) = 3
    /\ SelectedEmail(app) = Some(2)

\* Esc has left the attachment popup in a view without content pane: the focus stays put
C5_Witness ==
    /\ app.state = "EmailContent"
    /\ app.content_pane_hidden
    /\ app.current_view = "MessagesAttachments"
    /\ app.active_pane = "Attachments"
    /\ app.selection.attachment_index = 1

\* the last view of the hidden-content graph has been reached, and next_view stays there
C7_Witness ==
    /\ app.content_pane_hidden
    /\ app.current_view = "MessagesAttachments"
    /\ View_next_view(app.current_view, app.content_pane_hidden) = None
    /\ App_next_view(app).current_view = "MessagesAttachments"
    /\ App_prev_view(app).current_view = "Messages"

\* a toggle has led to ListOnly with a message selected, and two more toggles come back to it
C8_Witness ==
    /\ ListOnly(app)
    /\ ToggleStable(app)
    /\ IsSome(SelectedEmail(app))
    /\ toggle_content_pane(app).current_view = "MessagesContent"
    /\ DoubleToggle(app).current_view = "Messages"
    /\ DoubleToggle(app).active_pane = app.active_pane

\* q has been handled: the loop is left with the quit state set, a message still selected
C9_Witness ==
    /\ pc = "done"
    /\ app.state = "Quit"
    /\ app.should_quit
    /\ IsSome(SelectedEmail(app))

\* Alt+a on a selected message without attachments has been rejected with a status message
C10_Witness ==
    /\ app.status_message = Some("No attachments in this email")
    /\ IsSome(SelectedEmail(app))
    /\ ~SelectedHasAttachments(app)
    /\ app.state # "AttachmentView"

(***************************************************************************)
(* Leaving the attachment popup.                                           *)
(***************************************************************************)
\* C11: whatever event is handled in AttachmentView, the app is afterwards still in
\* AttachmentView, has quit, or is in EmailContent.
C11_LeavingAttachmentView ==
    (pc = "poll" /\ app.state = "AttachmentView")
    => \A event \in Events, budget \in IoBudgets :
          handle_input(clear_status(app), event, disk, budget).app.state
              \in {"AttachmentView", "Quit", "EmailContent"}

(***************************************************************************)
(* The mirror                                                              *)
(***************************************************************************)
\* C12: whenever the mirror holds the lock to compute a fingerprint or a projection, the render
\* loop is not inside the handling of an input event or of a redraw: what the mirror reads is
\* the state before or after a complete handling, never an intermediate one.
C12_NoTornRead ==
    (mirror_pc \in {"locked", "fetching"})
    => (handling = None /\ pc \in {"draw", "poll", "done"})

C12_Witness ==
    /\ mirror_pc \in {"locked", "fetching"}
    /\ app.active_pane = "Messages"
    /\ IsSome(app.email_store.selected_email)
    /\ IsSome(stream.sent)

\* C13: the render loop does not hold the lock while it waits for input, the mirror does not
\* hold it while it sleeps, compares or pushes, and the two never hold it together.
C13_LockDiscipline ==
    /\ (pc \in {"draw", "poll", "done"}) => lock # "render"
    /\ (mirror_pc \in {"sleep", "compare", "fetch"}) => lock # "mirror"
    /\ (pc \in {"drawing", "handling", "mutating"}) => lock = "render"
    /\ (mirror_pc \in {"locked", "fetching"}) => lock = "mirror"
    /\ ~(pc \in {"drawing", "handling", "mutating"} /\ mirror_pc \in {"locked", "fetching"})

C13_Witness ==
    /\ pc = "poll"
    /\ lock = "mirror"
    /\ app.active_pane # "Folders"

\* C14: a poll pushes a notification exactly when its fingerprint differs from the one last
\* pushed on the stream (the first poll has none before it and pushes), and no notification
\* carries the fingerprint of the notification before it.
C14_PushIffChanged ==
    /\ IsSome(stream.poll)
       => (Unwrap(stream.poll).pushed <=> Unwrap(stream.poll).differed)
    /\ ~stream.repeated

C14_Witness ==
    /\ IsSome(stream.poll)
    /\ ~Unwrap(stream.poll).pushed
    /\ IsSome(stream.sent)
    /\ app.active_pane # "Folders"

\* C15: the two reads of the mirror, the fingerprint and the projection, leave every field of
\* the app state as it was.
C15_MirrorReadsOnly ==
    [][(MirrorRead \/ FetchRead) => app' = app]_vars

C15_Witness ==
    /\ mirror_pc = "sleep"
    /\ IsSome(stream.sent)
    /\ Unwrap(stream.sent) = FormatEmailId(0, 1, TRUE)

\* C16: the projection source is None while the Folders pane is active, even with a message
\* selected; in every other pane it is the selected message of the store's current folder,
\* None when none is selected.
C16_WebEmail ==
    get_current_email_for_web(app)
        = IF app.active_pane = "Folders" \/ ~IsSome(app.email_store.selected_email)
          THEN None
          ELSE Some(get_current_folder(app.email_store)
                        .emails[Unwrap(app.email_store.selected_email) + 1])

C16_Witness ==
    /\ app.active_pane = "Folders"
    /\ IsSome(app.email_store.selected_email)
    /\ IsSome(get_selected_email_headers(app.email_store))
    /\ get_current_email_for_web(app) = None

(***************************************************************************)
(* The store operations                                                    *)
(***************************************************************************)
\* C17: select_email(i) leaves the store with selected_email = Some(i) and nothing else
\* changed when i is smaller than the number of emails of the current folder, and leaves the
\* store exactly as it was for any other i.
C17_SelectEmail ==
    (IsSome(handling) /\ Unwrap(handling).op = "select_email")
    => app.email_store
         = IF Unwrap(handling).arg < Len(get_current_folder(Unwrap(handling).before).emails)
           THEN [Unwrap(handling).before EXCEPT !.selected_email = Some(Unwrap(handling).arg)]
           ELSE Unwrap(handling).before

C17_Witness ==
    /\ IsSome(handling)
    /\ Unwrap(handling).op = "select_email"
    /\ Unwrap(handling).arg >= Len(get_current_folder(Unwrap(handling).before).emails)
    /\ IsSome(Unwrap(handling).before.selected_email)
    /\ app.email_store.selected_email = Unwrap(handling).before.selected_email

\* C18: from any current_folder, entering by an index path that is valid below the current
\* folder and exiting as many times as the path is long gives current_folder its value back.
C18_EnterExitRoundTrip ==
    \A path \in Paths :
        IsSome(FolderAtPath(get_current_folder(app.email_store), path))
        => ExitTimes(enter_folder_by_path(app.email_store, path), Len(path)).current_folder
             = app.email_store.current_folder

C18_Witness ==
    /\ IsSome(handling)
    /\ Unwrap(handling).op = "enter_folder_by_path"
    /\ Len(Unwrap(handling).arg) = 2
    /\ IsSome(FolderAtPath(get_current_folder(Unwrap(handling).before), Unwrap(handling).arg))
    /\ Unwrap(handling).before.current_folder # << >>
    /\ ExitTimes(app.email_store, 2).current_folder = Unwrap(handling).before.current_folder

\* C19: get_current_folder resolves any current_folder, malformed or not, to the folder that
\* the longest prefix of the path with all its indices in range leads to.
C19_DeepestValidAncestor ==
    LET root == app.email_store.root_folder
        path == app.email_store.current_folder
        valid == { k \in 0..Len(path) : IsSome(FolderAtPath(root, SubSeq(path, 1, k))) }
        longest == CHOOSE k \in valid : \A j \in valid : j <= k
    IN  get_current_folder(app.email_store) = Unwrap(FolderAtPath(root, SubSeq(path, 1, longest)))

(***************************************************************************)
(* The folder counts                                                       *)
(***************************************************************************)
\* the counts of a folder and of every folder below it agree with its list of emails
RECURSIVE CountsAgree(_)
CountsAgree(folder) ==
    /\ folder.unread_count <= folder.total_count
    /\ folder.total_count = Len(folder.emails)
    /\ folder.unread_count
         = Cardinality({ i \in 1..Len(folder.emails) : folder.emails[i].is_unread })
    /\ \A i \in 1..Len(folder.subfolders) : CountsAgree(folder.subfolders[i])

\* some folder of the tree, fully loaded, holds an email twice: once from the capped load and
\* once from the full load that followed it
RECURSIVE LoadedAfterCappedLoad(_)
LoadedAfterCappedLoad(folder) ==
    \/ /\ folder.is_loaded
       /\ \E i, j \in 1..Len(folder.emails) : i < j /\ folder.emails[i].file = folder.emails[j].file
    \/ \E i \in 1..Len(folder.subfolders) : LoadedAfterCappedLoad(folder.subfolders[i])

\* some folder of the tree holds an unread email
RECURSIVE HoldsUnread(_)
HoldsUnread(folder) ==
    \/ folder.unread_count > 0
    \/ \E i \in 1..Len(folder.subfolders) : HoldsUnread(folder.subfolders[i])

\* C20: in every folder of the tree unread_count <= total_count, total_count is the length of
\* the list of emails and unread_count the number of its emails with is_unread, also once a
\* full load has followed a capped load.
C20_FolderCounts == CountsAgree(app.email_store.root_folder)

C20_Witness ==
    /\ pc = "poll"
    /\ LoadedAfterCappedLoad(app.email_store.root_folder)
    /\ HoldsUnread(app.email_store.root_folder)

(***************************************************************************)
(* The loads                                                               *)
(***************************************************************************)
\* the mail files of a folder's directory, those of cur before those of new
MailFiles(folder) ==
    IF ~is_maildir(DiskAt(disk, folder.path)) THEN << >>
    ELSE SelectSeq(FilesOf(DiskAt(disk, folder.path), "cur")
                       \o FilesOf(DiskAt(disk, folder.path), "new"), is_email_file)

\* what each operation with each input leaves of a store
EveryOutcome(store) == UNION { LoaderOutcomes(store, op) : op \in LoaderOps }

\* the outcome is that of op, returned Ok, on a store whose current folder was not loaded
AppliedToUnloaded(store, o, op) ==
    /\ o.op = op
    /\ o.ok
    /\ ~get_current_folder(store).is_loaded

\* the list of the folder holds each mail file of its directory exactly once
EachFileOnce(folder) ==
    /\ Len(folder.emails) = Len(MailFiles(folder))
    /\ \A i \in 1..Len(folder.emails) : folder.emails[i].file = MailFiles(folder)[i]

\* C21: a capped load with limit N of an unloaded, empty folder with more than N mail files
\* leaves N emails and is_loaded false; a full load that follows a capped load leaves each
\* mail file of the directory exactly once and is_loaded true.
C21_CappedThenFullLoad ==
    \A o \in EveryOutcome(app.email_store) :
        /\ ( /\ AppliedToUnloaded(app.email_store, o, "ensure_current_folder_loaded_with_limit")
             /\ get_current_folder(app.email_store).emails = << >>
             /\ Len(MailFiles(get_current_folder(o.val))) > o.arg[1] )
           => /\ Len(get_current_folder(o.val).emails) = o.arg[1]
              /\ ~get_current_folder(o.val).is_loaded
        /\ ( /\ AppliedToUnloaded(app.email_store, o, "load_folder_emails")
             /\ get_current_folder(app.email_store).emails # << >> )
           => /\ get_current_folder(o.val).is_loaded
              /\ EachFileOnce(get_current_folder(o.val))

LoadOps ==
    {"load_folder_emails", "ensure_current_folder_loaded_with_limit",
     "ensure_folder_at_path_loaded", "load_more_messages_if_needed"}

\* the folder that the operation of an outcome is aimed at, in the given store: the folder at
\* the path given for ensure_folder_at_path_loaded, the current folder for the others
LoadTarget(o, store) ==
    IF o.op = "ensure_folder_at_path_loaded"
    THEN Unwrap(FolderAtPath(store.root_folder, o.arg))
    ELSE get_current_folder(store)

\* C22: a full load, a capped load (of the current folder or by path) or a load of more
\* messages aimed at a folder with is_loaded true returns Ok and leaves the list of emails,
\* the counts and is_loaded of that folder as they were.
C22_LoadOfLoadedIsNoOp ==
    \A o \in EveryOutcome(app.email_store) :
        (o.op \in LoadOps /\ LoadTarget(o, app.email_store).is_loaded)
        => /\ o.ok
           /\ LoadTarget(o, o.val).emails = LoadTarget(o, app.email_store).emails
           /\ LoadTarget(o, o.val).unread_count = LoadTarget(o, app.email_store).unread_count
           /\ LoadTarget(o, o.val).total_count = LoadTarget(o, app.email_store).total_count
           /\ LoadTarget(o, o.val).is_loaded

\* a folder other than the inbox was loaded in full and is the current folder, with unread
\* emails: every load is now one of a loaded folder
C22_Witness ==
    /\ app.email_store.current_folder # << >>
    /\ get_current_folder(app.email_store).name # "INBOX"
    /\ get_current_folder(app.email_store).is_loaded
    /\ Len(get_current_folder(app.email_store).emails) >= 2
    /\ get_current_folder(app.email_store).unread_count > 0

(***************************************************************************)
(* The load state of a message                                             *)
(***************************************************************************)
\* no email that was FullyLoaded in the tree old is HeadersOnly at its place in the tree new
RECURSIVE NoneWentBack(_, _)
NoneWentBack(old, new) ==
    /\ \A i \in 1..Len(old.emails) :
          (i <= Len(new.emails) /\ old.emails[i].load_state = "FullyLoaded")
          => new.emails[i].load_state = "FullyLoaded"
    /\ \A i \in 1..Len(old.subfolders) : NoneWentBack(old.subfolders[i], new.subfolders[i])

\* C23: no operation on a message or on the store takes a message from FullyLoaded back to
\* HeadersOnly.
C23_LoadStateNeverGoesBack ==
    \A o \in EveryOutcome(app.email_store) :
        NoneWentBack(app.email_store.root_folder, o.val.root_folder)

\* no email that was HeadersOnly in the tree old is FullyLoaded at its place in the tree new
RECURSIVE NoneWentForward(_, _)
NoneWentForward(old, new) ==
    /\ \A i \in 1..Len(old.emails) :
          (i <= Len(new.emails) /\ old.emails[i].load_state = "HeadersOnly")
          => new.emails[i].load_state = "HeadersOnly"
    /\ \A i \in 1..Len(old.subfolders) : NoneWentForward(old.subfolders[i], new.subfolders[i])

\* C24: right after a load by the scanner every email of the loaded folder is HeadersOnly, and
\* only get_selected_email takes an email from HeadersOnly to FullyLoaded.
C24_HeadersOnlyAfterLoad ==
    \A o \in EveryOutcome(app.email_store) :
        /\ (o.op \in LoadOps /\ o.ok /\ ~LoadTarget(o, app.email_store).is_loaded)
           => \A i \in 1..Len(LoadTarget(o, o.val).emails) :
                 LoadTarget(o, o.val).emails[i].load_state = "HeadersOnly"
        /\ o.op # "get_selected_email"
           => NoneWentForward(app.email_store.root_folder, o.val.root_folder)

(***************************************************************************)
(* The scan                                                                *)
(***************************************************************************)
\* the folder and every folder below it hold no email, count none and are not loaded
RECURSIVE StructureOnly(_)
StructureOnly(folder) ==
    /\ folder.emails = << >>
    /\ folder.total_count = 0
    /\ ~folder.is_loaded
    /\ \A i \in 1..Len(folder.subfolders) : StructureOnly(folder.subfolders[i])

\* C25: the tree that a successful scan() returns holds structure
\* only: every folder, the inbox included, has no emails, total_count 0 and is_loaded false.
C25_ScanStructureOnly ==
    \A budget \in IoBudgets :
        scan(disk, budget).ok => StructureOnly(scan(disk, budget).val)

(***************************************************************************)
(* The folder pane                                                         *)
(***************************************************************************)
\* the name is the inbox name in some letter case
NamedLikeInbox(folder) == EqIgnoreAsciiCase(NameBytes(folder.name), InboxLower)

\* the display order of the children of one folder is a permutation of them that puts the
\* children named like the inbox first and the others in the order of their names
SortedInboxFirst(folder) ==
    LET subs == folder.subfolders
        sorted == get_sorted_subfolders(folder)
    IN  /\ Len(sorted) = Len(subs)
        /\ \A p \in 1..Len(subs) : \E i \in 1..Len(sorted) : sorted[i] = p
        /\ \A i, j \in 1..Len(sorted) :
              i < j => /\ ~(~NamedLikeInbox(subs[sorted[i]]) /\ NamedLikeInbox(subs[sorted[j]]))
                       /\ (~NamedLikeInbox(subs[sorted[i]]) /\ ~NamedLikeInbox(subs[sorted[j]]))
                          => ~BytesLess(NameBytes(subs[sorted[j]].name),
                                        NameBytes(subs[sorted[i]].name))

RECURSIVE SortedInboxFirstBelow(_)
SortedInboxFirstBelow(folder) ==
    /\ SortedInboxFirst(folder)
    /\ \A i \in 1..Len(folder.subfolders) : SortedInboxFirstBelow(folder.subfolders[i])

\* C26: for every folder of the tree get_sorted_subfolders gives a permutation of the children
\* with a child named like the inbox, in any letter case, first and the other children in
\* the lexicographic order of their names.
C26_SortedSubfolders == SortedInboxFirstBelow(app.email_store.root_folder)

\* the item the folder pane draws for the folder a storage path leads to
ItemOfPath(root, path) ==
    [indent |-> Len(path) - 1, display_name |-> get_display_name(Unwrap(FolderAtPath(root, path)))]

DisplayIndexResolves(root, items, i) ==
    LET Resolved(p) ==
            IF i < Len(items)
            THEN /\ IsSome(p)
                 /\ Unwrap(p) # << >>
                 /\ IsSome(FolderAtPath(root, Unwrap(p)))
                 /\ ItemOfPath(root, Unwrap(p)) = items[i + 1]
                 /\ \A j \in 0..(Len(items) - 1) :
                       get_folder_path_from_display_index(root, j) = p => j = i
            ELSE p = None
    IN  Resolved(get_folder_path_from_display_index(root, i))

\* C27: for every display index below the number of non-root folders,
\* get_folder_path_from_display_index gives a path that get_folder_at_path resolves to the
\* folder the folder pane draws at that index (depth-first, sorted, root left out), a
\* different folder for every index; for every index from that number on it gives None.
C27_DisplayIndexToPath ==
    LET Listed(root, items) ==
            /\ Len(items) = DescendantCount(root)
            /\ \A i \in 0..(Len(items) + 1) : DisplayIndexResolves(root, items, i)
    IN  Listed(app.email_store.root_folder, build_folder_list_static(app.email_store.root_folder, 0))

\* a nested folder whose display position differs from its storage position was entered
\* through the path of its display index
C27_Witness ==
    /\ pc = "draw"
    /\ Len(app.email_store.current_folder) = 2
    /\ get_sorted_subfolders(app.email_store.root_folder)[1] # 1
    /\ get_folder_path_from_display_index(app.email_store.root_folder, app.selection.folder_index)
          = Some(app.email_store.current_folder)

\* the folder pane shows a child of the root named like the inbox at the display index
ShowsInboxAt(root, display_index) ==
    LET Shown(p) == /\ IsSome(p)
                    /\ Len(Unwrap(p)) = 1
                    /\ NamedLikeInbox(Unwrap(FolderAtPath(root, Unwrap(p))))
    IN  Shown(get_folder_path_from_display_index(root, display_index))

\* C28: right after App::new, before the first draw, selection.folder_index is the display
\* index at which the folder pane shows the child of the root named like the inbox (in any
\* letter case) when there is such a child, and 0 otherwise.
C28_StartupSelectsInbox ==
    ~app.initial_loading_done =>
        LET root == app.email_store.root_folder
        IN  IF \E i \in 1..Len(root.subfolders) : NamedLikeInbox(root.subfolders[i])
            THEN ShowsInboxAt(root, app.selection.folder_index)
            ELSE app.selection.folder_index = 0

(***************************************************************************)
(* Entering a folder                                                       *)
(***************************************************************************)
\* the keys that enter the highlighted folder from the folder pane: Enter, and l at the root
\* level
EntersFolder(a, event) ==
    /\ a.active_pane = "Folders"
    /\ \/ event = Key("Enter", "NONE")
       \/ event = Key("l", "NONE") /\ a.email_store.current_folder = << >>

\* the Result of the capped load the entry of the folder at an index path runs
EntryLoad(a, path, root_dir, budget) ==
    ensure_current_folder_loaded_with_limit(
        enter_folder_by_path([a.email_store EXCEPT !.current_folder = << >>], path),
        LoadCount(EstimatedVisibleRows), root_dir, budget)

EnteredAt(a, path, after) ==
    /\ after.email_store.current_folder = path
    /\ after.current_view = IF a.content_pane_hidden THEN "Messages" ELSE "MessagesContent"
    /\ after.active_pane = "Messages"
    /\ after.selection.remembered_email_index = None
    /\ get_current_folder(after.email_store).emails # << >>
          => after.email_store.selected_email = Some(0)

\* C29: with the folder pane focused and a folder displayed at the highlighted index, Enter
\* (or l at the root level) with a successful load makes current_folder the path of that
\* folder, shows the message list with the content (the list alone when the content pane is
\* hidden), focuses the message list, clears remembered_email_index and selects message 0
\* when the folder has messages.
C29_EnterHighlightedFolder ==
    pc = "poll" =>
        \A event \in TreeEvents, budget \in IoBudgets :
            LET Entered(a, path) ==
                    (/\ EntersFolder(a, event)
                     /\ IsSome(path)
                     /\ EntryLoad(a, Unwrap(path), disk, budget).ok)
                    => EnteredAt(a, Unwrap(path), handle_input(a, event, disk, budget).app)
            IN  Entered(clear_status(app),
                        get_folder_path_from_display_index(app.email_store.root_folder,
                                                           app.selection.folder_index))

\* the nested folder was entered from its display index while the content pane was hidden
C29_Witness ==
    /\ pc = "draw"
    /\ app.content_pane_hidden
    /\ app.active_pane = "Messages"
    /\ app.current_view = "Messages"
    /\ Len(app.email_store.current_folder) = 2
    /\ get_folder_path_from_display_index(app.email_store.root_folder, app.selection.folder_index)
          = Some(app.email_store.current_folder)
    /\ app.email_store.selected_email = Some(0)
    /\ app.selection.remembered_email_index = None

\* what is left of the app when the load of the folder at an index path failed
LoadFailureKept(a, path, after) ==
    /\ IsSome(after.status_message)
    /\ ~after.should_quit
    /\ after.state # "Quit"
    /\ after.current_view = a.current_view
    /\ after.active_pane = a.active_pane
    /\ ~Unwrap(FolderAtPath(after.email_store.root_folder, path)).is_loaded

\* the Result of the capped load the highlighting of the folder at an index path runs
HighlightLoad(a, path, root_dir, budget) ==
    ensure_folder_at_path_loaded(a.email_store, path, a.message_pane_visible_rows,
                                 root_dir, budget)

\* the handling of a key that enters the highlighted folder, or that moves the highlight to
\* another folder, with a load that fails
FailedLoadHandled(a, event, root_dir, budget, r) ==
    LET Entered(path) ==
            (/\ EntersFolder(a, event)
             /\ IsSome(path)
             /\ ~EntryLoad(a, Unwrap(path), root_dir, budget).ok)
            => (~r.quit /\ LoadFailureKept(a, Unwrap(path), r.app))
        Highlighted(path) ==
            (/\ a.active_pane = "Folders"
             /\ event \in {Key("j", "NONE"), Key("k", "NONE")}
             /\ r.app.selection.folder_index # a.selection.folder_index
             /\ IsSome(path)
             /\ ~HighlightLoad(a, Unwrap(path), root_dir, budget).ok)
            => (~r.quit /\ LoadFailureKept(a, Unwrap(path), r.app))
    IN  /\ Entered(get_folder_path_from_display_index(a.email_store.root_folder,
                                                      a.selection.folder_index))
        /\ Highlighted(get_folder_path_from_display_index(a.email_store.root_folder,
                                                          r.app.selection.folder_index))

\* the first draw, which loads the folder highlighted at startup, with a load that fails
FailedLoadDrawn(a, root_dir, budget, after) ==
    LET Highlighted(path) ==
            (/\ ~a.initial_loading_done
             /\ a.state # "Help"
             /\ IsSome(path)
             /\ ~HighlightLoad(a, Unwrap(path), root_dir, budget).ok)
            => LoadFailureKept(a, Unwrap(path), after)
    IN  Highlighted(get_folder_path_from_display_index(a.email_store.root_folder,
                                                       a.selection.folder_index))

\* C30: when the load of a folder fails while the folder is entered (Enter, or l at the root
\* level) or highlighted (j, k, or the first draw), a status message is recorded, the app keeps
\* running, current_view and active_pane are as before, and the folder is still not loaded.
C30_FailedLoadKeepsView ==
    /\ pc = "poll" =>
          \A event \in TreeEvents, budget \in IoBudgets :
              FailedLoadHandled(clear_status(app), event, disk, budget,
                                handle_input(clear_status(app), event, disk, budget))
    /\ pc = "draw" =>
          \A visible_rows \in VisibleRowsSet, budget \in IoBudgets :
              FailedLoadDrawn(app, disk, budget, draw(app, visible_rows, disk, budget))

\* an entry of a folder failed: its path is the current folder, the folder pane is still
\* focused and the folder is not loaded
C30_Witness ==
    /\ pc = "draw"
    /\ app.status_message = Some("Error loading folder")
    /\ app.active_pane = "Folders"
    /\ app.email_store.current_folder # << >>
    /\ ~get_current_folder(app.email_store).is_loaded

(***************************************************************************)
(* Views, panes and the selection memory                                   *)
(***************************************************************************)
\* the app is where a restore runs: next_view from the folder view into the view of the
\* message list with the content, or switch_pane from the folder pane to the message list
RestoresByNextView(a) ==
    /\ a.current_view = "FolderMessages"
    /\ View_next_view(a.current_view, a.content_pane_hidden) = Some("MessagesContent")

RestoresBySwitchPane(a, direction) ==
    /\ a.active_pane = "Folders"
    /\ switch_pane(a, direction).active_pane = "Messages"

ViewingSelected(after) ==
    IsSome(after.email_store.selected_email)
    => (after.state = "EmailContent" /\ after.active_pane = "Messages")

\* C31: after a restore that leaves a message selected (next_view from the folder view into
\* the view of the message list with the content, or switch_pane from the folder pane to the
\* message list), the state is EmailContent and the focus is on the message list.
C31_RestoreViewsContent ==
    pc = "poll" =>
        /\ RestoresByNextView(app) => ViewingSelected(App_next_view(app))
        /\ \A direction \in {"Left", "Right"} :
              RestoresBySwitchPane(app, direction) => ViewingSelected(switch_pane(app, direction))

ViewingReadable(after) ==
    IsSome(get_selected_email(after.email_store).res)
    => (after.state = "EmailContent" /\ after.active_pane = "Messages")

\* C31 (amended): after a restore (next_view from the folder view into the view of the message
\* list with the content, or switch_pane from the folder pane to the message list) after which
\* get_selected_email yields the selected message, the state is EmailContent and the focus is
\* on the message list; a selected message that cannot be parsed leaves the state as it was.
C31_RestoreViewsReadable ==
    pc = "poll" =>
        /\ RestoresByNextView(app) => ViewingReadable(App_next_view(app))
        /\ \A direction \in {"Left", "Right"} :
              RestoresBySwitchPane(app, direction) => ViewingReadable(switch_pane(app, direction))

\* a remembered message other than the first was restored: it is selected, viewed, and the
\* message list has the focus
C31_Witness ==
    /\ pc = "draw"
    /\ app.selection.remembered_email_index = Some(1)
    /\ app.email_store.selected_email = Some(1)
    /\ app.selection.email_index = 1
    /\ app.state = "EmailContent"
    /\ app.active_pane = "Messages"
    /\ app.current_view \in {"MessagesContent", "FolderMessages"}

\* the last view of the mode: the content alone, or the attachments when the content pane is
\* hidden
AtLastView(a) ==
    a.current_view = IF a.content_pane_hidden THEN "MessagesAttachments" ELSE "Content"

\* C32: next_view at the last view of the current mode and prev_view at the folder view change
\* no field of the app: the view, the pane, the state, the selection with the remembered
\* index, the status and the store are as they were.
C32_ViewStepAtEndIsNoOp ==
    /\ AtLastView(app) => App_next_view(app) = app
    /\ app.current_view = "FolderMessages" => App_prev_view(app) = app

\* the last view of the mode is shown with a message selected and the content scrolled
C32_Witness ==
    /\ pc = "poll"
    /\ AtLastView(app)
    /\ IsSome(app.email_store.selected_email)
    /\ app.selection.scroll_offset > 0

\* the pane that follows, or precedes, the pane at the 1-based position i of a list of n panes,
\* around the ends
NeighbourPane(panes, i, direction) ==
    IF direction = "Right" THEN panes[(i % Len(panes)) + 1]
    ELSE panes[((i + Len(panes) - 2) % Len(panes)) + 1]

PaneCycled(a, direction, panes, after) ==
    /\ after.current_view = a.current_view
    /\ Contains(panes, after.active_pane)
    /\ \A i \in 1..Len(panes) :
          panes[i] = a.active_pane => after.active_pane = NeighbourPane(panes, i, direction)
    /\ Len(panes) = 1 => after.active_pane = a.active_pane

\* C33: switch_pane never changes current_view and moves active_pane within the ordered pane
\* list of the current view only: Right to the next pane, from the last to the first, Left to
\* the previous pane, from the first to the last; in a view of one pane active_pane stays.
C33_SwitchPaneCycles ==
    pc = "poll" =>
        \A direction \in {"Left", "Right"} :
            PaneCycled(app, direction,
                       get_available_panes(app.current_view, app.content_pane_hidden),
                       switch_pane(app, direction))

\* the pane was switched from the folder pane to the message list, the last pane of the
\* folder view, and a message was restored; Right now goes around to the folder pane
C33_Witness ==
    /\ pc = "poll"
    /\ app.current_view = "FolderMessages"
    /\ app.active_pane = "Messages"
    /\ app.state = "EmailContent"
    /\ IsSome(app.email_store.selected_email)

MemoryCleared(after) ==
    /\ after.selection.remembered_email_index = None
    /\ after.selection.email_index = 0

\* C34: whenever a key moves the highlight of the folder pane to another folder, or enters
\* the highlighted folder from the folder pane, remembered_email_index is None and
\* selection.email_index is 0 afterwards.
C34_FolderChangeClearsMemory ==
    pc = "poll" =>
        \A event \in Events, budget \in IoBudgets :
            LET Handled(a, after) ==
                    /\ ( /\ a.active_pane = "Folders"
                         /\ event \in {Key("j", "NONE"), Key("k", "NONE"),
                                       Key("Down", "NONE"), Key("Up", "NONE")}
                         /\ after.selection.folder_index # a.selection.folder_index )
                       => MemoryCleared(after)
                    /\ ( /\ a.state \notin {"Help", "AttachmentView"}
                         /\ EntersFolder(a, event)
                         /\ IsSome(get_folder_path_from_display_index(a.email_store.root_folder,
                                                                      a.selection.folder_index)) )
                       => MemoryCleared(after)
            IN  Handled(clear_status(app),
                        handle_input(clear_status(app), event, disk, budget).app)

(***************************************************************************)
(* Loading the rest of a folder near the end of its list                   *)
(***************************************************************************)
\* the full load ran: it failed, or it left the folder changed (a full load that succeeds
\* marks the folder loaded)
FullLoadRan(store, r) == ~r.ok \/ r.val # store

NearEndOfUnloaded(store, index) ==
    /\ ~get_current_folder(store).is_loaded
    /\ index + 5 >= Len(get_current_folder(store).emails)

\* the Down key moved the cursor of the message list by one and no load error was reported
DownStepMade(a, event, after) ==
    /\ a.state \notin {"Help", "AttachmentView"}
    /\ a.active_pane = "Messages"
    /\ event \in {Key("j", "NONE"), Key("Down", "NONE")}
    /\ after.selection.email_index = a.selection.email_index + 1
    /\ after.status_message = None

LoadedOrFarFromEnd(after) ==
    \/ get_current_folder(after.email_store).is_loaded
    \/ after.selection.email_index + 5 < Len(get_current_folder(after.email_store).emails)

\* C35: load_more_messages_if_needed(index) runs the full load of the current folder exactly
\* when the folder is not loaded and index + 5 >= the number of its materialized messages;
\* so after every Down step of the message list that reports no load error, the current
\* folder is loaded or the cursor is more than 5 positions before the end of the list.
C35_LoadMoreNearEnd ==
    pc = "poll" =>
        /\ \A index \in 0..Len(get_current_folder(app.email_store).emails), budget \in IoBudgets :
               FullLoadRan(app.email_store,
                           load_more_messages_if_needed(app.email_store, index, disk, budget))
                   <=> NearEndOfUnloaded(app.email_store, index)
        /\ \A event \in LoadEvents, budget \in IoBudgets :
               LET Handled(a, after) == DownStepMade(a, event, after) => LoadedOrFarFromEnd(after)
               IN  Handled(clear_status(app),
                           handle_input(clear_status(app), event, disk, budget).app)

\* the cursor went down in a folder that is still not loaded, far from the end of its list
C35_Witness ==
    /\ pc = "draw"
    /\ app.active_pane = "Messages"
    /\ app.selection.email_index = 3
    /\ app.email_store.selected_email = Some(3)
    /\ ~get_current_folder(app.email_store).is_loaded
    /\ Len(get_current_folder(app.email_store).emails) = LoadCount(EstimatedVisibleRows)

\* the cursor came within the margin and the rest of the folder was loaded
C35_WitnessLoaded ==
    /\ pc = "draw"
    /\ app.active_pane = "Messages"
    /\ app.selection.email_index = LoadCount(EstimatedVisibleRows) - 5
    /\ get_current_folder(app.email_store).is_loaded
    /\ Len(get_current_folder(app.email_store).emails) > LoadCount(EstimatedVisibleRows)

(***************************************************************************)
(* Reading the selected message                                            *)
(***************************************************************************)
\* the message returned is the one at the selected index of the current folder, fully loaded
ReturnsSelectedLoaded(store, g) ==
    IsSome(g.res) =>
        /\ IsSome(store.selected_email)
        /\ Unwrap(store.selected_email) < Len(get_current_folder(store).emails)
        /\ Unwrap(g.res).file = get_current_folder(store).emails[Unwrap(store.selected_email) + 1].file
        /\ Unwrap(g.res) = get_current_folder(g.val).emails[Unwrap(store.selected_email) + 1]
        /\ Unwrap(g.res).load_state = "FullyLoaded"

FullParseFails(store) ==
    /\ IsSome(store.selected_email)
    /\ Unwrap(store.selected_email) < Len(get_current_folder(store).emails)
    /\ ~ensure_fully_loaded(get_current_folder(store).emails[Unwrap(store.selected_email) + 1]).ok

NoneKeepsSelection(store, g) ==
    (~IsSome(store.selected_email) \/ FullParseFails(store)) =>
        /\ g.res = None
        /\ g.val.selected_email = store.selected_email

\* C36: whenever get_selected_email returns a message, it is the message at
\* store.selected_email of the current folder and it is FullyLoaded; when nothing is
\* selected or the full parse fails it returns None and leaves selected_email unchanged.
C36_SelectedEmailFullyLoaded ==
    LET Got(store, g) == ReturnsSelectedLoaded(store, g) /\ NoneKeepsSelection(store, g)
    IN  Got(app.email_store, get_selected_email(app.email_store))

\* a selected message still HeadersOnly that the call loads, reached after a call that did so
C36_Witness ==
    LET Selected(store, current) ==
            /\ store.selected_email = Some(1)
            /\ Len(current.emails) >= 2
            /\ current.emails[1].load_state = "FullyLoaded"
            /\ current.emails[2].load_state = "HeadersOnly"
            /\ IsSome(get_selected_email(store).res)
    IN  Selected(app.email_store, get_current_folder(app.email_store))

\* a selected placeholder whose full parse fails
C36_WitnessFails ==
    FullParseFails(app.email_store) /\ get_selected_email(app.email_store).res = None

(***************************************************************************)
(* The fingerprint of the mirror and the message it serves                 *)
(***************************************************************************)
\* the file of the message that get_current_email_for_web serves, None for the welcome page
FocusedFile(a) ==
    IF IsSome(get_current_email_for_web(a)) THEN Some(Unwrap(get_current_email_for_web(a)).file)
    ELSE None

\* a poll before and a poll after the handling of one event
FingerprintTracksFocus(a, after) ==
    ReadFingerprint(a).id = ReadFingerprint(after).id => FocusedFile(a) = FocusedFile(after)

\* C37: change detection misses no change of focus: when the message served to the mirror
\* differs between two polls, the fingerprints folder_index:email_index:has_email read by
\* the two polls differ (states with equal fingerprints have the same focused message).
C37_FingerprintTracksFocus ==
    pc = "poll" =>
        \A event \in Events, budget \in IoBudgets :
            FingerprintTracksFocus(app, handle_input(clear_status(app), event, disk, budget).app)

(***************************************************************************)
(* The cursor of the message list and the selection of the store           *)
(***************************************************************************)
\* C38: in every reachable state, store.selected_email = Some(i) implies
\* selection.email_index = i.
C38_SelectionFollowsCursor ==
    IsSome(app.email_store.selected_email) =>
        app.selection.email_index = Unwrap(app.email_store.selected_email)

\* C39: in every reachable state, remembered_email_index = Some(k) implies that k is a valid
\* message index of the folder designated by store.current_folder: no key sequence, the
\* Backspace of the folder pane included, leaves a remembered index of another folder.
C39_RememberedIndexValid ==
    IsSome(app.selection.remembered_email_index) =>
        Unwrap(app.selection.remembered_email_index)
            < Len(get_current_folder(app.email_store).emails)

(***************************************************************************)
(* The mirror under fair scheduling.  The render loop runs the steps it    *)
(* takes under the lock to their end (no call in a lock scope of run_app   *)
(* waits for input): RenderScopeStep is the step of RenderDraw,            *)
(* RenderMutate or RenderRelease seen on pc alone, the only steps that     *)
(* move pc from "drawing", "handling" or "mutating".  The mirror task and  *)
(* the page's fetch keep being scheduled, and a lock() that finds the      *)
(* mutex free again and again gets it.                                     *)
(***************************************************************************)
RenderScopeStep ==
    /\ pc \in {"drawing", "handling", "mutating"}
    /\ pc' \in {"poll", "done", "mutating", "draw"}
    /\ pc' # pc

MirrorFairness ==
    /\ WF_pc(RenderScopeStep)
    /\ SF_vars(MirrorLock) /\ WF_vars(MirrorRead) /\ WF_vars(MirrorCompare)
    /\ SF_vars(FetchLock) /\ WF_vars(FetchRead)

\* the keys the user presses in the runs under fair scheduling
FairEvents ==
    { Key(c, "NONE") : c \in {"q", "j", "Tab", "Enter"} }

FairLockForEvent ==
    /\ pc = "poll"
    /\ lock = "free"
    /\ \E event \in FairEvents :
          /\ handling' = Some([before |-> app, event |-> Some(event)])
          /\ HandledEvent(Unwrap(handling')).app.selection.scroll_offset <= MaxScroll
    /\ lock' = "render"
    /\ pc' = "handling"
    /\ UNCHANGED <<app, disk, mirror_pc, last_email_id, current_email_id, stream>>

FairNext ==
    \/ RenderLockForDraw \/ RenderDraw \/ RenderPollTimeout
    \/ FairLockForEvent \/ RenderMutate \/ RenderRelease
    \/ MirrorLock \/ MirrorRead \/ MirrorCompare \/ FetchLock \/ FetchRead

MirrorFairSpec == MirrorSpecInit /\ [][FairNext]_vars /\ MirrorFairness

\* the state of the app stops changing
AppSettles == <>[][app' = app]_app

\* the last notification pushed carries the fingerprint of the app
PushedCurrent == stream.sent = Some(ReadFingerprint(app).id)

\* C40: when the state of the app stops changing while its fingerprint differs from the last
\* one pushed, a notification carrying that fingerprint is eventually pushed, provided the
\* mirror task keeps being scheduled and can take the lock; and the render loop never holds
\* the lock forever.
C40_NotificationEventuallyPushed ==
    /\ AppSettles => <>[]PushedCurrent
    /\ (lock = "render") ~> (lock # "render")

\* a notification was pushed for a fingerprint other than the first one
C40_Witness ==
    /\ PushedCurrent
    /\ app.selection.email_index = 1
    /\ stream.poll = Some([pushed |-> TRUE, differed |-> TRUE])
    /\ stream.repeated = FALSE
    /\ mirror_pc = "fetch"

====
